---- MODULE Spec2Model ----
(***************************************************************************)
(* The workflow executor (executeWorkflowFunction): the traversal of a     *)
(* node/edge graph from its start triggers, one durable step per node,     *)
(* with the run state (outputs, results, visited) the handler keeps.       *)
(***************************************************************************)
EXTENDS Integers, Sequences, FiniteSets, TLC

VARIABLES
  nodes,        \* event.data.nodes: the node list of the run
  edges,        \* event.data.edges: the edge list of the run
  executionId,  \* event.data.executionId, or NoExecutionId
  outputs,      \* outputs: sanitized node id -> [label, data]
  results,      \* results: node id -> ExecutionResult
  visited,      \* the visited set of the trigger walk in progress
  stack,        \* the executeNode calls suspended in their successor loop
  pc,           \* "walks" | "call" | "await" | "loop" | "done"
  arg,          \* the nodeId of the executeNode call in progress
  via,          \* the node whose successor loop made that call
  walk,         \* how many trigger walks were started
  sink,         \* the calls of logWorkflowCompleteDb
  returned,     \* the handler's return value, once it returned
  log,          \* history: what each executeNode call did, in order
  memo,         \* the settled steps the durable-step substrate has stored
  ran,          \* history: the steps whose function was run, in order
  first,        \* history: the longest delivery of the run so far
  delivery,     \* how many times the run was delivered to the handler
  call          \* a call of one of the handler's functions, taken by itself

\* What outlives a delivery of the run.
dvars == <<memo, ran, first, delivery>>

\* The state of a run.
rvars == <<nodes, edges, executionId, outputs, results, visited, stack, pc,
           arg, via, walk, sink, returned, log, memo, ran, first, delivery>>

vars == <<nodes, edges, executionId, outputs, results, visited, stack, pc,
          arg, via, walk, sink, returned, log, memo, ran, first, delivery,
          call>>

-----------------------------------------------------------------------------
(* Bounds of the model. *)

\* The longest edge list an input graph has.
MaxEdges == 3

\* The deepest nesting of executeNode calls the model follows.
MaxDepth == 4

\* How many times a run is delivered to the handler at most.
MaxDeliveries == 2

-----------------------------------------------------------------------------
(* JavaScript values, as far as the executor inspects them. *)

Undef == [t |-> "undefined"]

Null == [t |-> "null"]

Bool(b) == [t |-> "boolean", v |-> b]

Str(s) == [t |-> "string", v |-> s]

Obj(f) == [t |-> "object", f |-> f]

Num(n) == [t |-> "number", v |-> n]

\* A function value, such as the members every object inherits.
Fn == [t |-> "function"]

HasField(v, name) == v.t = "object" /\ name \in DOMAIN v.f

EmptyMap == [k \in {} |-> Undef]

Put(m, k, v) == [x \in DOMAIN m \cup {k} |-> IF x = k THEN v ELSE m[x]]

-----------------------------------------------------------------------------
(* Node ids are strings: sequences of characters. *)

AlnumChars == {"a", "b", "c", "n", "o", "r", "s", "t", "u", "1", "2"}

IsAlnum(c) == c \in AlnumChars

\* nodeId.replace(/[^a-zA-Z0-9]/g, "_")
sanitize(id) == [i \in 1..Len(id) |-> IF IsAlnum(id[i]) THEN id[i] ELSE "_"]

NoNode == <<>>

NoExecutionId == ""

NoActionType == ""

-----------------------------------------------------------------------------
(* Input graphs. *)

Node(id, type, enabled, actionType) ==
  [id |-> id, type |-> type, enabled |-> enabled, actionType |-> actionType]

Trigger(id) == Node(id, "trigger", TRUE, NoActionType)

Action(id, actionType) == Node(id, "action", TRUE, actionType)

Disabled(n) == [n EXCEPT !.enabled = FALSE]

T1 == <<"t", "1">>

T2 == <<"t", "2">>

A == <<"a">>

B == <<"b">>

C == <<"c">>

\* Two ids that differ only in a non-alphanumeric character.
N1 == <<"n", "-", "1">>

N2 == <<"n", "_", "1">>

\* An id that edges name and no node has.
Ghost == <<"n", "2">>

\* An id that is the part of N1 before its "-".
N == <<"n">>

\* An action type no implementation has: it begins with the part of N1 after
\* its "-", followed by "-".
DashedType == "1-HTTP Request"

NodeLists ==
  { <<Trigger(T1), Trigger(T2), Action(A, "HTTP Request")>>,
    <<Trigger(T1), Action(C, "Condition"), Action(A, "HTTP Request")>>,
    <<Disabled(Trigger(T1)), Action(A, "HTTP Request"), Action(B, "HTTP Request")>>,
    <<Trigger(T1), Disabled(Action(C, "Condition")), Action(A, "HTTP Request")>>,
    <<Trigger(T1), Disabled(Action(A, "HTTP Request")), Action(B, "HTTP Request")>>,
    <<Trigger(T1), Action(A, "HTTP Request"), Action(B, "HTTP Request")>>,
    <<Trigger(T1), Action(N1, "HTTP Request"), Action(N2, "HTTP Request")>>,
    <<Trigger(T1), Action(A, NoActionType), Action(B, "HTTP Request")>>,
    <<Trigger(T1), Action(A, "Bogus"), Action(B, "constructor")>>,
    <<Trigger(T1), Node(A, "add", TRUE, NoActionType), Action(B, "HTTP Request")>>,
    <<Trigger(T1), Action(N, DashedType), Action(N1, "HTTP Request")>>,
    <<Trigger(T1), Action(A, "HTTP Request")>> }

Ids(ns) == {ns[i].id : i \in 1..Len(ns)}

\* The ids an edge may name: the nodes', and for a short list a missing one.
EdgeIds(ns) == Ids(ns) \cup (IF Len(ns) < 3 THEN {Ghost} ELSE {})

EdgeLists(ns) ==
  UNION { [1..k -> [source : EdgeIds(ns), target : EdgeIds(ns)]] : k \in 0..MaxEdges }

-----------------------------------------------------------------------------
(* The graph model the handler builds. *)

HasNode(id) == id \in Ids(nodes)

\* nodeMap.get(id)
NodeOf(id) == CHOOSE n \in {nodes[i] : i \in 1..Len(nodes)} : n.id = id

RECURSIVE TargetsFrom(_, _)
TargetsFrom(es, id) ==
  IF es = <<>> THEN <<>>
  ELSE IF Head(es).source = id
       THEN <<Head(es).target>> \o TargetsFrom(Tail(es), id)
       ELSE TargetsFrom(Tail(es), id)

edgesBySourceReversed(id) ==
  LET s == TargetsFrom(edges, id)
  IN  [i \in 1..Len(s) |-> s[Len(s) + 1 - i]]

\* edgesBySource.get(id) || []
edgesBySource(id) == TargetsFrom(edges, id)

nodesWithIncoming == {edges[i].target : i \in 1..Len(edges)}

IsTrigger(n) == n.type = "trigger"

IsStartTrigger(n) == n.type = "trigger" /\ n.id \notin nodesWithIncoming

RECURSIVE FilterStart(_)
FilterStart(ns) ==
  IF ns = <<>> THEN <<>>
  ELSE IF IsStartTrigger(Head(ns))
       THEN <<Head(ns)>> \o FilterStart(Tail(ns))
       ELSE FilterStart(Tail(ns))

triggerNodes == FilterStart(nodes)

-----------------------------------------------------------------------------
(* Steps and their results. *)

SYSTEM_ACTIONS == {"Database Query", "HTTP Request", "Condition"}

\* Names that SYSTEM_ACTIONS[actionType] finds although SYSTEM_ACTIONS has no
\* such entry: the members an object literal inherits.
InheritedKeys == {"constructor", "toString"}

\* The action types the plugin registry has.
PluginTypes == {"Send Email"}

\* getStepImporter(actionType) finds an importer.
getStepImporter(actionType) == actionType \in PluginTypes

Returns(v) == [k |-> "return", v |-> v]

Throws(msg) == [k |-> "throw", msg |-> msg]

Success(data) == [success |-> TRUE, data |-> data, error |-> Undef]

Failure(msg) == [success |-> FALSE, data |-> Undef, error |-> msg]

\* What the trigger step returns.
TriggerResult == Success(Obj([triggered |-> Bool(TRUE)]))

\* How the durable step of an action node can settle.
StepOutcomes(actionType) ==
  IF actionType = "Condition"
  THEN { Returns(Obj([condition |-> Bool(TRUE)])),
         Returns(Obj([condition |-> Bool(FALSE)])),
         Throws(Str("thrown")) }
  ELSE IF actionType \in SYSTEM_ACTIONS
  THEN { Returns(Obj([status |-> Str("200")])),
         Returns(Obj([success |-> Bool(FALSE), error |-> Str("refused")])),
         Throws(Str("thrown")) }
  ELSE IF actionType \in InheritedKeys
  THEN { Throws(Str("systemAction.importer is not a function")) }
  ELSE IF getStepImporter(actionType)
  THEN { Returns(Obj([status |-> Str("200")])),
         Returns(Obj([success |-> Bool(FALSE), error |-> Str("refused")])),
         Throws(Str("thrown")) }
  ELSE { Returns(Obj([success |-> Bool(FALSE),
                      error |-> Str("Unknown action type")])) }

\* The characters of an action type, as far as "-" divides them.
TypeChars(actionType) ==
  IF actionType = DashedType
  THEN <<"1", "-", "HTTP Request">>
  ELSE <<actionType>>

\* `trigger-${nodeId}` and `action-${nodeId}-${actionType}`
StepKey(n) ==
  IF n.type = "trigger"
  THEN <<"trigger", "-">> \o n.id
  ELSE <<"action", "-">> \o n.id \o <<"-">> \o TypeChars(n.actionType)

Truthy(v) ==
  CASE v.t = "undefined" -> FALSE
    [] v.t = "null" -> FALSE
    [] v.t = "boolean" -> v.v
    [] v.t = "string" -> v.v # ""
    [] v.t = "number" -> v.v # 0
    [] OTHER -> TRUE

isErrorResultFalsy(stepResult) ==
  /\ Truthy(stepResult)
  /\ HasField(stepResult, "success")
  /\ ~Truthy(stepResult.f["success"])

isErrorResult(stepResult) ==
  /\ Truthy(stepResult)
  /\ HasField(stepResult, "success")
  /\ stepResult.f["success"] = Bool(FALSE)

Normalize(stepResult) ==
  IF isErrorResult(stepResult)
  THEN Failure(IF HasField(stepResult, "error") /\ Truthy(stepResult.f["error"])
               THEN stepResult.f["error"]
               ELSE Str("Step failed"))
  ELSE Success(stepResult)

NoActionTypeIgnored == Success(Undef)

NoActionTypeResult == Failure(Str("no action type configured"))

UnknownNodeTypeResult == Failure(Str("Unknown node type"))

\* outputs[sanitizedNodeId] = {label: node.data.label || nodeId, data}
StoreOutput(outs, nodeId, data) ==
  Put(outs, sanitize(nodeId), [label |-> nodeId, data |-> data])

StoreResult(res, nodeId, result) == Put(res, nodeId, result)

isConditionNode(n) == n.type = "action" /\ n.actionType = "Condition"

ContinuesOnSuccess(n, result) == result.success

\* Whether executeNode goes on to the node's successors.
ContinuesAfter(n, result) ==
  /\ result.success
  /\ isConditionNode(n) =>
       /\ HasField(result.data, "condition")
       /\ result.data.f["condition"] = Bool(TRUE)

finalSuccessOfSome(res) == res # EmptyMap /\ \A n \in DOMAIN res : res[n].success

finalSuccess(res) == \A n \in DOMAIN res : res[n].success

StatusAlwaysSuccess(success) == "success"

StatusOf(success) == IF success THEN "success" ELSE "error"

-----------------------------------------------------------------------------
(* The traversal. *)

IsVisitedNever(v, id) == FALSE

IsVisited(v, id) == id \in v

InitOutputsPrefilled(ns) ==
  [k \in {sanitize(id) : id \in {ns[i].id : i \in 1..Len(ns)}} |->
     [label |-> CHOOSE id \in {ns[i].id : i \in 1..Len(ns)} : sanitize(id) = k,
      data |-> Null]]

InitOutputs(ns) == EmptyMap

MarkVisitedForgets(v, id) == v

MarkVisited(v, id) == v \cup {id}

NoResult == [none |-> TRUE]

Event(ev, result) ==
  [walk |-> walk, node |-> arg, via |-> via, ev |-> ev, result |-> result]

ReturnToWalks(s) == "walks"

\* Where control goes when an executeNode call returns with stack s left.
ReturnTo(s) == IF s = <<>> THEN "walks" ELSE "loop"

Push(s, id) == Append(s, [node |-> id, next |-> 1])

AfterDisabledStops(s, id) == s

\* A disabled node's successors are all visited.
AfterDisabled(s, id) == Push(s, id)

\* A missing node that is given a failure result.
AfterMissingFails(res, id) == StoreResult(res, id, Failure(Str("not found")))

\* if (!node) return: the results are left as they are.
AfterMissing(res, id) == res

\* No function call is looked at by itself.
NoCall == [fn |-> "none"]

\* What a delivery that did nothing leaves behind.
NoDelivery == [log |-> <<>>, results |-> EmptyMap, outputs |-> EmptyMap]

Init ==
  /\ nodes \in NodeLists
  /\ edges \in EdgeLists(nodes)
  /\ executionId \in {NoExecutionId, "e1"}
  /\ outputs = InitOutputs(nodes)
  /\ results = EmptyMap
  /\ visited = {}
  /\ stack = <<>>
  /\ pc = "walks"
  /\ arg = NoNode
  /\ via = NoNode
  /\ walk = 0
  /\ sink = <<>>
  /\ returned = [done |-> FALSE, success |-> FALSE]
  /\ log = <<>>
  /\ memo = EmptyMap
  /\ ran = <<>>
  /\ first = NoDelivery
  /\ delivery = 1
  /\ call = NoCall

\* for (const trigger of triggerNodes) await executeNode(trigger.id)
BeginWalk ==
  /\ pc = "walks"
  /\ walk < Len(triggerNodes)
  /\ walk' = walk + 1
  /\ arg' = triggerNodes[walk + 1].id
  /\ via' = NoNode
  /\ visited' = {}
  /\ pc' = "call"
  /\ UNCHANGED <<nodes, edges, executionId, outputs, results, stack, sink,
                 returned, log>>
  /\ UNCHANGED <<dvars, call>>

\* if (visited.has(nodeId)) return
VisitAgain ==
  /\ pc = "call"
  /\ Len(stack) < MaxDepth
  /\ IsVisited(visited, arg)
  /\ log' = Append(log, Event("again", NoResult))
  /\ pc' = ReturnTo(stack)
  /\ UNCHANGED <<nodes, edges, executionId, outputs, results, visited, stack,
                 arg, via, walk, sink, returned>>
  /\ UNCHANGED <<dvars, call>>

\* visited.add(nodeId); if (!node) return
VisitMissing ==
  /\ pc = "call"
  /\ Len(stack) < MaxDepth
  /\ ~IsVisited(visited, arg)
  /\ ~HasNode(arg)
  /\ visited' = MarkVisited(visited, arg)
  /\ results' = AfterMissing(results, arg)
  /\ log' = Append(log, Event("missing", NoResult))
  /\ pc' = ReturnTo(stack)
  /\ UNCHANGED <<nodes, edges, executionId, outputs, stack, arg, via, walk,
                 sink, returned>>
  /\ UNCHANGED <<dvars, call>>

\* if (node.data.enabled === false) { outputs[...] = {label, data: null}; ... }
VisitDisabled ==
  /\ pc = "call"
  /\ Len(stack) < MaxDepth
  /\ ~IsVisited(visited, arg)
  /\ HasNode(arg)
  /\ ~NodeOf(arg).enabled
  /\ visited' = MarkVisited(visited, arg)
  /\ outputs' = StoreOutput(outputs, arg, Null)
  /\ stack' = AfterDisabled(stack, arg)
  /\ log' = Append(log, Event("disabled", NoResult))
  /\ pc' = IF stack' = stack THEN ReturnTo(stack) ELSE "loop"
  /\ UNCHANGED <<nodes, edges, executionId, results, arg, via, walk, sink,
                 returned>>
  /\ UNCHANGED <<dvars, call>>

\* result = await step.run(`trigger-${nodeId}`, ...): the step is started
VisitTrigger ==
  /\ pc = "call"
  /\ Len(stack) < MaxDepth
  /\ ~IsVisited(visited, arg)
  /\ HasNode(arg)
  /\ NodeOf(arg).enabled
  /\ NodeOf(arg).type = "trigger"
  /\ visited' = MarkVisited(visited, arg)
  /\ log' = Append(log, Event("start", NoResult))
  /\ pc' = "await"
  /\ UNCHANGED <<nodes, edges, executionId, outputs, results, stack, arg, via,
                 walk, sink, returned>>
  /\ UNCHANGED <<dvars, call>>

\* if (!actionType) { results[nodeId] = result; return }
VisitNoActionType ==
  /\ pc = "call"
  /\ Len(stack) < MaxDepth
  /\ ~IsVisited(visited, arg)
  /\ HasNode(arg)
  /\ NodeOf(arg).enabled
  /\ NodeOf(arg).type = "action"
  /\ NodeOf(arg).actionType = NoActionType
  /\ visited' = MarkVisited(visited, arg)
  /\ results' = StoreResult(results, arg, NoActionTypeResult)
  /\ log' = Append(log, Event("noType", NoActionTypeResult))
  /\ pc' = ReturnTo(stack)
  /\ UNCHANGED <<nodes, edges, executionId, outputs, stack, arg, via, walk,
                 sink, returned>>
  /\ UNCHANGED <<dvars, call>>

\* processTemplates(config, outputs); await step.run(`action-...`): started
VisitAction ==
  /\ pc = "call"
  /\ Len(stack) < MaxDepth
  /\ ~IsVisited(visited, arg)
  /\ HasNode(arg)
  /\ NodeOf(arg).enabled
  /\ NodeOf(arg).type = "action"
  /\ NodeOf(arg).actionType # NoActionType
  /\ visited' = MarkVisited(visited, arg)
  /\ log' = Append(log, Event("start", NoResult))
  /\ pc' = "await"
  /\ UNCHANGED <<nodes, edges, executionId, outputs, results, stack, arg, via,
                 walk, sink, returned>>
  /\ UNCHANGED <<dvars, call>>

\* else { result = {success: false, error: `Unknown node type ...`} }
VisitUnknownType ==
  /\ pc = "call"
  /\ Len(stack) < MaxDepth
  /\ ~IsVisited(visited, arg)
  /\ HasNode(arg)
  /\ NodeOf(arg).enabled
  /\ NodeOf(arg).type \notin {"trigger", "action"}
  /\ visited' = MarkVisited(visited, arg)
  /\ results' = StoreResult(results, arg, UnknownNodeTypeResult)
  /\ outputs' = StoreOutput(outputs, arg, UnknownNodeTypeResult.data)
  /\ log' = Append(log, Event("unknownType", UnknownNodeTypeResult))
  /\ pc' = ReturnTo(stack)
  /\ UNCHANGED <<nodes, edges, executionId, stack, arg, via, walk, sink,
                 returned>>
  /\ UNCHANGED <<dvars, call>>

\* The step returned: store the result and the output, go on if successful.
Stored(result) ==
  /\ results' = StoreResult(results, arg, result)
  /\ outputs' = StoreOutput(outputs, arg, result.data)
  /\ log' = Append(log, Event(IF result.success THEN "ok" ELSE "failed", result))
  /\ IF ContinuesAfter(NodeOf(arg), result)
     THEN stack' = Push(stack, arg) /\ pc' = "loop"
     ELSE stack' = stack /\ pc' = ReturnTo(stack)
  /\ UNCHANGED <<nodes, edges, executionId, visited, arg, via, walk, sink,
                 returned>>

SettleTrigger ==
  /\ pc = "await"
  /\ NodeOf(arg).type = "trigger"
  /\ Stored(TriggerResult)
  /\ UNCHANGED <<dvars, call>>

SettleReturn ==
  /\ pc = "await"
  /\ NodeOf(arg).type = "action"
  /\ \E o \in StepOutcomes(NodeOf(arg).actionType) :
       /\ o.k = "return"
       /\ Stored(Normalize(o.v))
  /\ UNCHANGED <<dvars, call>>

CaughtStoresOutput(msg) ==
  /\ results' = StoreResult(results, arg, Failure(msg))
  /\ outputs' = StoreOutput(outputs, arg, Failure(msg).data)
  /\ log' = Append(log, Event("thrown", Failure(msg)))
  /\ pc' = ReturnTo(stack)
  /\ UNCHANGED <<nodes, edges, executionId, visited, stack, arg, via, walk,
                 sink, returned>>

\* catch (error) { results[nodeId] = {success: false, error: errorMessage} }
Caught(msg) ==
  /\ results' = StoreResult(results, arg, Failure(msg))
  /\ log' = Append(log, Event("thrown", Failure(msg)))
  /\ pc' = ReturnTo(stack)
  /\ UNCHANGED <<nodes, edges, executionId, outputs, visited, stack, arg, via,
                 walk, sink, returned>>

SettleThrow ==
  /\ pc = "await"
  /\ NodeOf(arg).type = "action"
  /\ \E o \in StepOutcomes(NodeOf(arg).actionType) :
       /\ o.k = "throw"
       /\ Caught(o.msg)
  /\ UNCHANGED <<dvars, call>>

Top == stack[Len(stack)]

\* for (const nextNodeId of nextNodes) await executeNode(nextNodeId, visited)
LoopNext ==
  /\ pc = "loop"
  /\ Top.next <= Len(edgesBySource(Top.node))
  /\ arg' = edgesBySource(Top.node)[Top.next]
  /\ via' = Top.node
  /\ stack' = [stack EXCEPT ![Len(stack)].next = @ + 1]
  /\ pc' = "call"
  /\ UNCHANGED <<nodes, edges, executionId, outputs, results, visited, walk,
                 sink, returned, log>>
  /\ UNCHANGED <<dvars, call>>

\* The successor loop is over: the executeNode call returns.
LoopEnd ==
  /\ pc = "loop"
  /\ Top.next > Len(edgesBySource(Top.node))
  /\ stack' = SubSeq(stack, 1, Len(stack) - 1)
  /\ pc' = ReturnTo(stack')
  /\ UNCHANGED <<nodes, edges, executionId, outputs, results, visited, arg,
                 via, walk, sink, returned, log>>
  /\ UNCHANGED <<dvars, call>>

\* finalSuccess, the status update and the return value.
Finish ==
  /\ pc = "walks"
  /\ walk = Len(triggerNodes)
  /\ returned' = [done |-> TRUE, success |-> finalSuccess(results)]
  /\ sink' = IF executionId # NoExecutionId
             THEN Append(sink, [executionId |-> executionId,
                                status |-> StatusOf(finalSuccess(results))])
             ELSE sink
  /\ pc' = "done"
  /\ UNCHANGED <<nodes, edges, executionId, outputs, results, visited, stack,
                 arg, via, walk, log>>
  /\ UNCHANGED <<dvars, call>>

Next ==
  \/ BeginWalk
  \/ VisitAgain
  \/ VisitMissing
  \/ VisitDisabled
  \/ VisitTrigger
  \/ VisitNoActionType
  \/ VisitAction
  \/ VisitUnknownType
  \/ SettleTrigger
  \/ SettleReturn
  \/ SettleThrow
  \/ LoopNext
  \/ LoopEnd
  \/ Finish

Spec == Init /\ [][Next]_vars

\* The handler is resumed whenever a step settles: no step is left waiting.
FairSpec == Spec /\ WF_vars(Next)

-----------------------------------------------------------------------------
(* Reading the history. *)

\* An executeNode call arrives at a node with exactly one of these.
Arrivals == {"again", "missing", "disabled", "start", "noType", "unknownType"}

\* The events that write results[node].
ResultWriteEvents == {"ok", "failed", "thrown", "noType", "unknownType"}

\* The events that write outputs[sanitize(node)].
OutputWriteEvents == {"ok", "failed", "disabled", "unknownType"}

Events(evs) == {i \in DOMAIN log : log[i].ev \in evs}

EventsIn(w, n, evs) ==
  {i \in Events(evs) : log[i].walk = w /\ log[i].node = n}

Walks == 1..walk

\* The walks that are over.
CompleteWalks == {w \in Walks : w < walk \/ pc \in {"walks", "done"}}

HasOutputOf(n) == \E k \in DOMAIN outputs : outputs[k].label = n

\* The nodes the calls made from n's successor loop in walk w arrived at.
ArrivalsVia(w, n) ==
  LET s == SelectSeq(log, LAMBDA e : e.walk = w /\ e.via = n /\ e.ev \in Arrivals)
  IN  [i \in 1..Len(s) |-> s[i].node]

\* The condition a Condition node's result carries is strictly true.
ConditionTrue(result) ==
  /\ HasField(result.data, "condition")
  /\ result.data.f["condition"] = Bool(TRUE)

EnabledCondition(id) ==
  HasNode(id) /\ NodeOf(id).enabled /\ isConditionNode(NodeOf(id))

\* The graph is Trigger -> Condition -> A.
IsConditionChain ==
  /\ Len(nodes) = 3
  /\ nodes[1].type = "trigger" /\ nodes[1].enabled
  /\ EnabledCondition(nodes[2].id)
  /\ nodes[3].type = "action" /\ nodes[3].enabled
  /\ edges = << [source |-> nodes[1].id, target |-> nodes[2].id],
                [source |-> nodes[2].id, target |-> nodes[3].id] >>

-----------------------------------------------------------------------------
(* Re-delivery: the durable-step substrate stores every settled step and the *)
(* handler may be run again from its start.                                  *)

Edge(s, t) == [source |-> s, target |-> t]

\* The graphs a re-delivered run is followed over.
DurableGraphs ==
  { [nodes |-> <<Trigger(T1), Trigger(T2), Action(A, "HTTP Request")>>,
     edges |-> <<Edge(T1, A), Edge(T2, A)>>],
    [nodes |-> <<Trigger(T1), Action(N, DashedType), Action(N1, "HTTP Request")>>,
     edges |-> <<Edge(T1, N), Edge(T1, N1)>>],
    [nodes |-> <<Trigger(T1), Action(C, "Condition"), Action(A, "HTTP Request")>>,
     edges |-> <<Edge(T1, C), Edge(C, A)>>],
    [nodes |-> <<Trigger(T1), Disabled(Action(C, "Condition")), Action(A, "HTTP Request")>>,
     edges |-> <<Edge(T1, C), Edge(C, A)>>],
    [nodes |-> <<Trigger(T1), Action(A, "HTTP Request"), Action(B, "HTTP Request")>>,
     edges |-> <<Edge(T1, A), Edge(A, B), Edge(B, A)>>],
    [nodes |-> <<Trigger(T1), Action(A, "HTTP Request")>>,
     edges |-> <<Edge(T1, Ghost), Edge(T1, A)>>],
    [nodes |-> <<Trigger(T1), Action(A, NoActionType), Action(B, "HTTP Request")>>,
     edges |-> <<Edge(T1, A), Edge(T1, B)>>],
    [nodes |-> <<Trigger(T1), Node(A, "add", TRUE, NoActionType), Action(B, "HTTP Request")>>,
     edges |-> <<Edge(T1, A), Edge(T1, B)>>] }

\* A step of a run: its key and which submission of that key it is (a key
\* submitted again in the run names a further step).
StepId(key, occurrence) == <<key, occurrence>>

CurrentStepIdPerDelivery ==
  LET key == StepKey(NodeOf(arg))
  IN  StepId(key, 100 * delivery + Cardinality({i \in Events({"start"}) :
                                                 StepKey(NodeOf(log[i].node)) = key}))

\* The step in flight.
CurrentStepId ==
  LET key == StepKey(NodeOf(arg))
  IN  StepId(key, Cardinality({i \in Events({"start"}) :
                                 StepKey(NodeOf(log[i].node)) = key}))

\* The substrate has the settled step stored.
IsCompleted(m, id) == id \in DOMAIN m

\* How the function of a node's step can settle.
OutcomesOf(n) ==
  IF n.type = "trigger"
  THEN {Returns(TriggerResult.data)}
  ELSE StepOutcomes(n.actionType)

\* What the handler does when step.run settles with outcome o.
Settle(o) ==
  IF o.k = "throw"
  THEN Caught(o.msg)
  ELSE Stored(IF NodeOf(arg).type = "trigger" THEN TriggerResult
              ELSE Normalize(o.v))

\* step.run settles: with the stored outcome if the step is stored, and
\* otherwise by running the step's function and storing how it settled.
SettleDurably(k) ==
  /\ pc = "await"
  /\ IF IsCompleted(memo, CurrentStepId)
     THEN /\ memo[CurrentStepId].k = k
          /\ Settle(memo[CurrentStepId])
          /\ UNCHANGED <<memo, ran>>
     ELSE \E o \in OutcomesOf(NodeOf(arg)) :
            /\ o.k = k
            /\ Settle(o)
            /\ memo' = Put(memo, CurrentStepId, o)
            /\ ran' = Append(ran, CurrentStepId)
  /\ UNCHANGED <<first, delivery, call>>

StepReturns == SettleDurably("return")

StepThrows == SettleDurably("throw")

\* The delivery in progress is abandoned and the run is delivered again: the
\* handler starts from its beginning, the stored steps remain.
Redeliver ==
  /\ pc # "done"
  /\ delivery < MaxDeliveries
  /\ DOMAIN memo # {}
  /\ delivery' = delivery + 1
  /\ first' = IF Len(log) >= Len(first.log)
              THEN [log |-> log, results |-> results, outputs |-> outputs]
              ELSE first
  /\ outputs' = InitOutputs(nodes)
  /\ results' = EmptyMap
  /\ visited' = {}
  /\ stack' = <<>>
  /\ pc' = "walks"
  /\ arg' = NoNode
  /\ via' = NoNode
  /\ walk' = 0
  /\ log' = <<>>
  /\ UNCHANGED <<nodes, edges, executionId, sink, returned, memo, ran, call>>

RedeliveryInit ==
  /\ \E g \in DurableGraphs : nodes = g.nodes /\ edges = g.edges
  /\ executionId \in {NoExecutionId, "e1"}
  /\ outputs = InitOutputs(nodes)
  /\ results = EmptyMap
  /\ visited = {}
  /\ stack = <<>>
  /\ pc = "walks"
  /\ arg = NoNode
  /\ via = NoNode
  /\ walk = 0
  /\ sink = <<>>
  /\ returned = [done |-> FALSE, success |-> FALSE]
  /\ log = <<>>
  /\ memo = EmptyMap
  /\ ran = <<>>
  /\ first = NoDelivery
  /\ delivery = 1
  /\ call = NoCall

RedeliveryNext ==
  \/ BeginWalk
  \/ VisitAgain
  \/ VisitMissing
  \/ VisitDisabled
  \/ VisitTrigger
  \/ VisitNoActionType
  \/ VisitAction
  \/ VisitUnknownType
  \/ StepReturns
  \/ StepThrows
  \/ LoopNext
  \/ LoopEnd
  \/ Finish
  \/ Redeliver

RedeliverySpec == RedeliveryInit /\ [][RedeliveryNext]_vars

-----------------------------------------------------------------------------
(* C1 *)

-----------------------------------------------------------------------------
(* C2 *)

\* C2: if a node execution of the run ended in failure (the step threw or
\* returned {success: false}), the run returns success false and the status
\* given to the sink is "error".
C2_FailureFailsRun ==
  (pc = "done" /\ Events({"failed", "thrown"}) # {}) =>
    /\ ~returned.success
    /\ \A i \in DOMAIN sink : sink[i].status = "error"

-----------------------------------------------------------------------------
(* C3 *)

\* C3: every run finishes its trigger walks and returns, whatever cycles,
\* self-loops and duplicate edges the edge list has.
C3_Terminates == <>(pc = "done")

\* A finished run over a graph with a two-node cycle whose nodes both ran.
C3_CycleRunCompleted ==
  /\ pc = "done"
  /\ \E i, j \in DOMAIN edges :
       /\ edges[i].source = edges[j].target
       /\ edges[i].target = edges[j].source
       /\ edges[i].source # edges[i].target
       /\ Events({"ok"}) \cap {e \in DOMAIN log : log[e].node = edges[i].source} # {}
       /\ Events({"ok"}) \cap {e \in DOMAIN log : log[e].node = edges[i].target} # {}
       /\ \E e \in Events({"again"}) : log[e].node = edges[i].source
-----------------------------------------------------------------------------
(* C4 *)

C4_OncePerWalk ==
  \A w \in Walks : \A n \in EdgeIds(nodes) :
    /\ Cardinality(EventsIn(w, n, Arrivals \ {"again"})) <= 1
    /\ Cardinality(EventsIn(w, n, {"start"})) <= 1
    /\ Cardinality(EventsIn(w, n, ResultWriteEvents)) <= 1
    /\ Cardinality(EventsIn(w, n, OutputWriteEvents)) <= 1
    /\ \A j \in EventsIn(w, n, {"again"}) :
         \E i \in EventsIn(w, n, Arrivals \ {"again"}) : i < j

C4_SecondArrivalIdle ==
  (pc = "call" /\ arg \in visited) =>
    /\ results' = results
    /\ outputs' = outputs
    /\ visited' = visited
    /\ stack' = stack
    /\ pc' # "await"

\* C4: within one trigger walk a node is handled at most once (one step
\* invocation, one result write, one output write), and a later arrival at it
\* in the same walk changes nothing and starts no step.
C4_HandledOncePerWalk == []C4_OncePerWalk /\ [][C4_SecondArrivalIdle]_vars

\* A finished run in which a node was reached over two different paths of one
\* walk: it ran on the first arrival and the second was skipped.
C4_DiamondSecondArrival ==
  /\ pc = "done"
  /\ \E i, j \in DOMAIN log :
       /\ i < j
       /\ log[i].walk = log[j].walk
       /\ log[i].node = log[j].node
       /\ log[i].ev = "start"
       /\ log[j].ev = "again"
       /\ log[i].via # log[j].via

-----------------------------------------------------------------------------
(* C5 *)

\* C5: while an action node's templates are resolved and its condition is
\* evaluated (its step is started and not settled), every output in the map
\* was written by a node that an earlier executeNode call of the run arrived
\* at; no output of a node visited later is there.
C5_NoForwardReference ==
  (pc = "await" /\ NodeOf(arg).type = "action") =>
    \A k \in DOMAIN outputs :
      \E i \in 1..(Len(log) - 1) :
        /\ log[i].ev \in Arrivals \ {"again"}
        /\ log[i].node = outputs[k].label
        /\ sanitize(log[i].node) = k

\* An action node resolving against an earlier output while a successor of it
\* has not been visited yet.
C5_ResolvesBeforeSuccessor ==
  /\ pc = "await"
  /\ NodeOf(arg).type = "action"
  /\ DOMAIN outputs # {}
  /\ \E i \in DOMAIN edges :
       /\ edges[i].source = arg
       /\ HasNode(edges[i].target)
       /\ \A e \in DOMAIN log : log[e].node # edges[i].target

-----------------------------------------------------------------------------
(* C6 *)

\* C6: a call made from the successor loop of an enabled Condition node
\* follows a successful execution of it whose condition was strictly true; a
\* Condition that succeeded with a true condition visits all its successors;
\* in Trigger -> Condition -> A the node A has neither a result nor an output
\* when the condition was not true and is executed when it was.
C6_ConditionPruning ==
  /\ \A j \in Events(Arrivals) :
       EnabledCondition(log[j].via) =>
         \E i \in 1..(j - 1) :
           /\ log[i].walk = log[j].walk
           /\ log[i].node = log[j].via
           /\ log[i].ev = "ok"
           /\ ConditionTrue(log[i].result)
  /\ \A i \in Events({"ok"}) :
       (/\ log[i].walk \in CompleteWalks
        /\ EnabledCondition(log[i].node)
        /\ ConditionTrue(log[i].result)) =>
         ArrivalsVia(log[i].walk, log[i].node) = edgesBySource(log[i].node)
  /\ (pc = "done" /\ IsConditionChain) =>
       \A i \in Events({"ok"}) :
         log[i].node = nodes[2].id =>
           IF ConditionTrue(log[i].result)
           THEN EventsIn(1, nodes[3].id, {"start"}) # {}
           ELSE /\ nodes[3].id \notin DOMAIN results
                /\ ~HasOutputOf(nodes[3].id)
                /\ sanitize(nodes[3].id) \notin DOMAIN outputs

\* A finished run of Trigger -> Condition -> A whose condition was false.
C6_ChainPruned ==
  /\ pc = "done"
  /\ IsConditionChain
  /\ \E i \in Events({"ok"}) :
       log[i].node = nodes[2].id /\ ~ConditionTrue(log[i].result)

-----------------------------------------------------------------------------
(* C7 *)

C7_PassThrough ==
  /\ \A i \in Events({"disabled"}) :
       /\ EventsIn(log[i].walk, log[i].node, {"start"}) = {}
       /\ log[i].walk \in CompleteWalks =>
            ArrivalsVia(log[i].walk, log[i].node) = edgesBySource(log[i].node)
  /\ \A n \in Ids(nodes) : ~NodeOf(n).enabled => n \notin DOMAIN results

C7_DisabledVisit ==
  (pc = "call" /\ arg \notin visited /\ HasNode(arg) /\ ~NodeOf(arg).enabled
     /\ pc' # pc) =>
    /\ outputs' = Put(outputs, sanitize(arg), [label |-> arg, data |-> Null])
    /\ results' = results
    /\ pc' # "await"

\* C7: visiting a disabled node (a trigger or a Condition too) starts no step,
\* stores {label, data: null} under its sanitized id, writes no result, and
\* then visits every successor of the node, in edge order.
C7_DisabledPassThrough == []C7_PassThrough /\ [][C7_DisabledVisit]_vars

\* A finished run that went through a disabled node to two different
\* successors of it.
C7_DisabledWithTwoSuccessors ==
  /\ pc = "done"
  /\ \E i \in Events({"disabled"}) :
       /\ Len(edgesBySource(log[i].node)) = 2
       /\ edgesBySource(log[i].node)[1] # edgesBySource(log[i].node)[2]
       /\ \A s \in {edgesBySource(log[i].node)[1], edgesBySource(log[i].node)[2]} :
            EventsIn(log[i].walk, s, {"ok"}) # {}
-----------------------------------------------------------------------------
(* C8 *)

\* Node n went on to its successors in walk w: it was disabled, or it ran
\* successfully (with a true condition if it is a Condition node).
PassedIn(w, n) ==
  \/ EventsIn(w, n, {"disabled"}) # {}
  \/ \E i \in EventsIn(w, n, {"ok"}) : ContinuesAfter(NodeOf(n), log[i].result)

\* Every successor of a node that went on is visited, whatever failed
\* elsewhere, and every node whose step was started has a result.
BranchesIndependent ==
  \A w \in CompleteWalks :
    /\ \A n \in Ids(nodes) :
         PassedIn(w, n) => ArrivalsVia(w, n) = edgesBySource(n)
    /\ \A n \in Ids(nodes) :
         EventsIn(w, n, {"start"}) # {} =>
           /\ n \in DOMAIN results
           /\ EventsIn(w, n, {"ok", "failed", "thrown"}) # {}

\* C8: a failed node stops only the traversal through it (sibling branches
\* and other walks still run and have results), and a run in which a node
\* failed returns success false.
C8_BranchIsolation ==
  /\ BranchesIndependent
  /\ (pc = "done" /\ Events({"failed", "thrown"}) # {}) => ~returned.success

-----------------------------------------------------------------------------
(* C9 *)

Last(q) == q[Len(q)]

C9_NoVisitThroughThrown ==
  \A i \in Events({"thrown"}) :
    /\ ArrivalsVia(log[i].walk, log[i].node) = <<>>
    /\ ~log[i].result.success
    /\ log[i].result.error.t = "string"

C9_ThrowHandled ==
  (pc = "await" /\ log' # log /\ Last(log').ev = "thrown") =>
    /\ arg \in DOMAIN results'
    /\ results'[arg] = Last(log').result
    /\ \A n \in DOMAIN results : n # arg => results'[n] = results[n]
    /\ outputs' = outputs
    /\ stack' = stack
    /\ pc' \in {"loop", "walks"}

\* C9: when a node's step throws, results[node] becomes {success: false,
\* error: <message>}, the outputs map is not written, and no successor is
\* visited through the node.
C9_ThrownStepHandled == []C9_NoVisitThroughThrown /\ [][C9_ThrowHandled]_vars

\* A finished run in which the step of a node with a successor threw and the
\* node has no output.
C9_ThrownWithSuccessor ==
  /\ pc = "done"
  /\ \E i \in Events({"thrown"}) :
       /\ edgesBySource(log[i].node) # <<>>
       /\ ~results[log[i].node].success
       /\ sanitize(log[i].node) \notin DOMAIN outputs

-----------------------------------------------------------------------------
(* C10 *)

\* C10: when an action step returns {success: false, error}, the node gets a
\* failure result, the outputs map is not written for it, and no successor is
\* visited through it.
C10_ReturnedFailureLikeThrown ==
  [][(pc = "await" /\ log' # log /\ Last(log').ev = "failed") =>
       /\ ~results'[arg].success
       /\ outputs' = outputs
       /\ stack' = stack
       /\ pc' \in {"loop", "walks"}]_vars

-----------------------------------------------------------------------------
(* C11 *)

\* The events in which a node's execution ended in a failure of any kind.
FailureEvents == {"failed", "thrown", "noType", "unknownType"}

\* Every failure was turned into a failure ExecutionResult under the node's id.
FailuresBecomeResults ==
  \A i \in Events(FailureEvents) :
    /\ ~log[i].result.success
    /\ log[i].node \in DOMAIN results

\* C11: whatever failed at a node (returned failure, thrown exception, unknown
\* or missing action type, unknown node type) was turned into a failure
\* ExecutionResult, and when the run has completed results holds a failure for
\* every node at which something failed.
C11_FailureRecorded ==
  /\ FailuresBecomeResults
  /\ pc = "done" =>
       \A i \in Events(FailureEvents) : ~results[log[i].node].success

-----------------------------------------------------------------------------
(* C12 *)

\* C12: the success the run returns is true exactly when no ExecutionResult
\* held in results at completion has success false; with results empty it is
\* true.
C12_SuccessIsConjunction ==
  returned.done =>
    /\ returned.success <=> ~(\E n \in DOMAIN results : ~results[n].success)
    /\ DOMAIN results = {} => returned.success

\* A finished run that visited a disabled node and nothing else: results is
\* empty and the run returned success.
C12_OnlyDisabledVisited ==
  /\ pc = "done"
  /\ Events({"disabled"}) # {}
  /\ DOMAIN results = {}
  /\ returned.done
  /\ returned.success

-----------------------------------------------------------------------------
(* C13 *)

C13_SinkState ==
  /\ Len(sink) <= 1
  /\ sink # <<>> =>
       /\ pc = "done"
       /\ walk = Len(triggerNodes)
       /\ stack = <<>>
       /\ executionId # NoExecutionId
       /\ sink[1].executionId = executionId
       /\ sink[1].status \in {"success", "error"}
       /\ sink[1].status = "success" <=> returned.success
       /\ returned.success <=> (\A n \in DOMAIN results : results[n].success)
  /\ pc = "done" => (Len(sink) = 1 <=> executionId # NoExecutionId)

C13_NothingAfterSink ==
  sink # <<>> => (log' = log /\ sink' = sink /\ results' = results)

\* C13: the status sink is called once per run that has an executionId and
\* never in a run that has none; when it is called every trigger walk is over
\* and nothing is executed afterwards; its status is "success" exactly when
\* the run's overall success is true and "error" otherwise.
C13_FinalStatusReport == []C13_SinkState /\ [][C13_NothingAfterSink]_vars

\* A finished run of two trigger walks with an executionId whose one sink call
\* carried the status "error".
C13_ErrorReported ==
  /\ pc = "done"
  /\ walk = 2
  /\ Len(sink) = 1
  /\ sink[1].status = "error"
  /\ ~returned.success

-----------------------------------------------------------------------------
(* C14 *)

\* The nodes at which a trigger walk was started, in the order of the starts.
WalkStarts ==
  LET s == SelectSeq(log, LAMBDA e : e.via = NoNode /\ e.ev \in Arrivals)
  IN  [i \in 1..Len(s) |-> s[i].node]

\* The ids of the nodes of type trigger that no edge targets.
Qualifying ==
  {nodes[i].id : i \in {j \in 1..Len(nodes) :
     /\ nodes[j].type = "trigger"
     /\ \A e \in DOMAIN edges : edges[e].target # nodes[j].id}}

\* C14: a walk is started only at a node of type trigger that no edge targets;
\* in a finished run every such node started exactly one walk; a trigger with
\* an incoming edge and an action node never start one; and a run over a
\* graph without such a node executed nothing.
C14_WalkStartNodes ==
  /\ \A i \in DOMAIN WalkStarts : WalkStarts[i] \in Qualifying
  /\ Len(WalkStarts) <= walk
  /\ pc = "done" =>
       /\ {WalkStarts[i] : i \in DOMAIN WalkStarts} = Qualifying
       /\ Len(WalkStarts) = Cardinality(Qualifying)
       /\ Qualifying = {} => (log = <<>> /\ results = EmptyMap /\ outputs = EmptyMap)

\* A finished run in which one trigger started a walk and another trigger,
\* having an incoming edge, was executed inside that walk and started none.
C14_TriggerWithIncomingEdge ==
  /\ pc = "done"
  /\ Len(WalkStarts) = 1
  /\ \E i \in Events({"start"}) :
       /\ NodeOf(log[i].node).type = "trigger"
       /\ log[i].via # NoNode
       /\ log[i].node # WalkStarts[1]

-----------------------------------------------------------------------------
(* C15 *)

SettleEvents == {"ok", "failed", "thrown"}

\* The steps started and not yet settled.
InFlight == Cardinality(Events({"start"})) - Cardinality(Events(SettleEvents))

C15_OneStepInFlight ==
  /\ InFlight \in {0, 1}
  /\ InFlight = 1 <=> pc = "await"
  /\ \A i, j \in Events({"start"}) :
       i < j => \E k \in Events(SettleEvents) :
                  /\ i < k /\ k < j
                  /\ log[k].node = log[i].node
                  /\ log[k].walk = log[i].walk
  /\ \A i, j \in DOMAIN log : i < j => log[i].walk <= log[j].walk
  /\ \A i \in DOMAIN WalkStarts :
       \E k \in DOMAIN nodes :
         /\ nodes[k].id = WalkStarts[i]
         /\ \A h \in 1..(i - 1) :
              \E g \in 1..(k - 1) : nodes[g].id = WalkStarts[h]

C15_WalkAfterWalk ==
  walk' # walk =>
    /\ walk' = walk + 1
    /\ stack = <<>>
    /\ InFlight = 0
    /\ pc = "walks"

\* C15: at most one step is in flight; between two step starts the earlier
\* step settled; the walks are started in nodes-list order, and a walk is
\* started only when no executeNode call of the previous walk is unfinished
\* and no step is in flight.
C15_Sequential == []C15_OneStepInFlight /\ [][C15_WalkAfterWalk]_vars

\* A step of the second trigger walk in flight after the first walk ran
\* two steps to their end.
C15_SecondWalkStepInFlight ==
  /\ pc = "await"
  /\ walk = 2
  /\ Cardinality({i \in Events(SettleEvents) : log[i].walk = 1}) >= 2
  /\ InFlight = 1

-----------------------------------------------------------------------------
(* C16 *)

\* The targets of the edges that leave n, in edge-list order.
SuccessorsInEdgeOrder(n) ==
  LET s == SelectSeq(edges, LAMBDA e : e.source = n)
  IN  [i \in 1..Len(s) |-> s[i].target]

\* The event in which the executeNode call that handled node n in walk w
\* arrived.
HandlingOf(w, n) == CHOOSE i \in EventsIn(w, n, Arrivals \ {"again"}) : TRUE

\* The arrival of the executeNode call that event i belongs to.
CallOf(i) ==
  IF log[i].ev \in Arrivals THEN i ELSE HandlingOf(log[i].walk, log[i].node)

\* Event i belongs to the executeNode call that arrived in event j or to a
\* call nested in it (a nested call arrives after the call it is nested in).
RECURSIVE Under(_, _)
Under(i, j) ==
  LET c == CallOf(i)
  IN  \/ c = j
      \/ /\ c > j
         /\ log[c].via # NoNode
         /\ Under(HandlingOf(log[c].walk, log[c].via), j)

\* The arrival events of the calls made from one successor loop.
Siblings(j1, j2) ==
  /\ j1 < j2
  /\ log[j1].ev \in Arrivals
  /\ log[j2].ev \in Arrivals
  /\ log[j1].walk = log[j2].walk
  /\ log[j1].via = log[j2].via
  /\ log[j1].via # NoNode

\* C16: a node that ran successfully and is no Condition node visits every
\* successor, in the order of its edges in the edge list; and everything done
\* under the call for one successor is done before the call for the next
\* successor arrives, with nothing else in between.
C16_DepthFirstInEdgeOrder ==
  /\ \A i \in Events({"ok"}) :
       ~isConditionNode(NodeOf(log[i].node)) =>
         LET visits == ArrivalsVia(log[i].walk, log[i].node)
             succs == SuccessorsInEdgeOrder(log[i].node)
         IN  /\ Len(visits) <= Len(succs)
             /\ \A m \in DOMAIN visits : visits[m] = succs[m]
             /\ log[i].walk \in CompleteWalks => Len(visits) = Len(succs)
  /\ \A j2 \in Events(Arrivals) : \A j1 \in 1..(j2 - 1) :
       Siblings(j1, j2) =>
         /\ \A k \in j2..Len(log) :
              log[k].walk = log[j1].walk => ~Under(k, j1)
         /\ (\A j \in (j1 + 1)..(j2 - 1) : ~Siblings(j1, j)) =>
              \A k \in j1..(j2 - 1) : Under(k, j1)

\* A finished run in which a node had two successors, the first of them ran
\* a successor of its own, and that one ran before the call for the second
\* successor arrived (at a node the walk had handled by then).
C16_NestedBeforeSibling ==
  /\ pc = "done"
  /\ \E j1, j2, k \in DOMAIN log :
       /\ Siblings(j1, j2)
       /\ log[j1].node # log[j2].node
       /\ j1 < k /\ k < j2
       /\ log[k].ev = "ok"
       /\ log[k].via = log[j1].node
       /\ log[k].node \notin {log[j1].node, log[j1].via}
       /\ log[j2].ev = "again"

-----------------------------------------------------------------------------
(* C17 *)

\* Some executeNode call of the run arrived at node n.
Reached(n) == \E i \in Events(Arrivals) : log[i].node = n

\* C17: in a finished run a node that no walk visited has no entry in results
\* under its id and none in outputs under its sanitized id, and a disabled
\* node that was visited has an outputs entry with data null and no results
\* entry.
C17_UnreachedLeaveNoTrace ==
  pc = "done" =>
    /\ \A n \in Ids(nodes) :
         ~Reached(n) =>
           /\ n \notin DOMAIN results
           /\ sanitize(n) \notin DOMAIN outputs
    /\ \A n \in Ids(nodes) :
         (Reached(n) /\ ~NodeOf(n).enabled) =>
           /\ sanitize(n) \in DOMAIN outputs
           /\ outputs[sanitize(n)].data = Null
           /\ n \notin DOMAIN results

-----------------------------------------------------------------------------
(* C18 *)

\* The step keys the run has submitted, in order.
SubmittedKeys ==
  LET s == SelectSeq(log, LAMBDA e : e.ev = "start")
  IN  [i \in 1..Len(s) |-> StepKey(NodeOf(s[i].node))]

\* C18: no two step invocations of a run use the same step key.
C18_StepKeysUnique ==
  \A i, j \in DOMAIN SubmittedKeys :
    i # j => SubmittedKeys[i] # SubmittedKeys[j]

-----------------------------------------------------------------------------
(* C19 *)

Min(a, b) == IF a <= b THEN a ELSE b

\* C19: when the run is delivered again and the substrate settles every
\* stored step with its stored outcome, no step's function runs a second
\* time, the delivery in progress has done what the longest earlier delivery
\* did, event by event (the same nodes in the same order with the same
\* results), and where it has come as far as that delivery it has the same
\* results and outputs.
C19_RedeliveryIdempotent ==
  /\ \A i, j \in DOMAIN ran : i # j => ran[i] # ran[j]
  /\ \A i \in 1..Min(Len(log), Len(first.log)) : log[i] = first.log[i]
  /\ Len(log) = Len(first.log) =>
       /\ results = first.results
       /\ outputs = first.outputs

\* A second delivery that finished the run: it went past the point where the
\* first delivery, which had started three steps, was abandoned, and every
\* step's function ran once in all.
C19_SecondDeliveryFinished ==
  /\ delivery = 2
  /\ pc = "done"
  /\ Cardinality({i \in DOMAIN first.log : first.log[i].ev = "start"}) >= 3
  /\ Len(log) > Len(first.log)
  /\ Len(ran) = Cardinality(Events({"start"}))

-----------------------------------------------------------------------------
(* C20 *)

\* The action type is no system action and the plugin registry has none for
\* it.
IsUnknownActionType(actionType) ==
  /\ actionType # NoActionType
  /\ actionType \notin SYSTEM_ACTIONS
  /\ ~getStepImporter(actionType)

\* C20: the step of an action node whose action type is neither a system
\* action nor in the plugin registry ends in a failure ExecutionResult whose
\* error is the unknown-action-type error.
C20_UnknownActionTypeFails ==
  \A i \in Events(SettleEvents) :
    (/\ NodeOf(log[i].node).type = "action"
     /\ IsUnknownActionType(NodeOf(log[i].node).actionType)) =>
      /\ ~log[i].result.success
      /\ log[i].result.error = Str("Unknown action type")

-----------------------------------------------------------------------------
(* C21 *)

C21_MissingTypeRecorded ==
  /\ \A i \in Events({"noType"}) :
       /\ ~log[i].result.success
       /\ EventsIn(log[i].walk, log[i].node, {"start"}) = {}
       /\ EventsIn(log[i].walk, log[i].node, OutputWriteEvents) = {}
       /\ ArrivalsVia(log[i].walk, log[i].node) = <<>>
       /\ log[i].node \in DOMAIN results
       /\ ~results[log[i].node].success
  /\ \A w \in CompleteWalks : \A n \in Ids(nodes) :
       PassedIn(w, n) => ArrivalsVia(w, n) = edgesBySource(n)
  /\ (pc = "done" /\ Events({"noType"}) # {}) =>
       /\ ~returned.success
       /\ \A i \in DOMAIN sink : sink[i].status = "error"

C21_MissingTypeVisit ==
  (log' # log /\ Last(log').ev = "noType") =>
    /\ pc = "call"
    /\ arg \in DOMAIN results'
    /\ ~results'[arg].success
    /\ outputs' = outputs
    /\ stack' = stack
    /\ pc' \in {"loop", "walks"}

\* C21: the visit of an action node without an action type stores a failure
\* result at once, starts no step and writes no output; no successor is
\* visited through the node; the successors of the nodes that went on are
\* still all visited; and the finished run returns success false.
C21_MissingActionType == []C21_MissingTypeRecorded /\ [][C21_MissingTypeVisit]_vars

\* A finished run in which a node without an action type, having a successor
\* edge, failed and a sibling of it ran afterwards.
C21_SiblingRanAfterMissingType ==
  /\ pc = "done"
  /\ ~returned.success
  /\ \E i \in Events({"noType"}) : \E k \in Events({"ok"}) :
       /\ i < k
       /\ edgesBySource(log[i].node) # <<>>
       /\ log[k].via = log[i].via
       /\ log[k].walk = log[i].walk
       /\ log[k].node # log[i].node

-----------------------------------------------------------------------------
(* The handler's functions taken by themselves: each specification below
   calls one of them on inputs drawn from a bounded set, with no run of the
   handler in progress. *)

NoRun ==
  /\ nodes = <<>>
  /\ edges = <<>>
  /\ executionId = NoExecutionId
  /\ outputs = EmptyMap
  /\ results = EmptyMap
  /\ visited = {}
  /\ stack = <<>>
  /\ pc = "none"
  /\ arg = NoNode
  /\ via = NoNode
  /\ walk = 0
  /\ sink = <<>>
  /\ returned = [done |-> FALSE, success |-> FALSE]
  /\ log = <<>>
  /\ memo = EmptyMap
  /\ ran = <<>>
  /\ first = NoDelivery
  /\ delivery = 1

\* A map from field names to values, given as a set of <<name, value>> pairs.
Fields(pairs) ==
  [k \in {p[1] : p \in pairs} |-> (CHOOSE p \in pairs : p[1] = k)[2]]

-----------------------------------------------------------------------------
(* Result normalization of an action step's return value. *)

\* What an action step may return: primitives, and objects with or without
\* success, error and data fields.
StepResults ==
  {Undef, Null, Bool(TRUE), Bool(FALSE), Str(""), Str("x"), Num(0), Num(1)}
  \cup
  { Obj(Fields(s \cup e \cup d)) :
      s \in {{}} \cup {{<<"success", v>>} :
                v \in {Bool(TRUE), Bool(FALSE), Null, Undef, Num(0),
                       Str("false")}},
      e \in {{}} \cup {{<<"error", v>>} :
                v \in {Str("refused"), Str(""), Null}},
      d \in {{}, {<<"data", Str("d")>>}} }

NormalizeInit ==
  /\ NoRun
  /\ \E v \in StepResults :
       call = [fn |-> "normalize", stepResult |-> v, done |-> FALSE,
               result |-> NoResult]

NormalizeResult ==
  /\ call.fn = "normalize"
  /\ ~call.done
  /\ call' = [call EXCEPT !.result = Normalize(call.stepResult),
                          !.done = TRUE]
  /\ UNCHANGED rvars

NormalizeNext == NormalizeResult

NormalizeSpec == NormalizeInit /\ [][NormalizeNext]_vars

(* C22 *)

\* C22: the result of a step value v is a failure carrying v.error, or the
\* default message when v.error is missing or falsy, exactly when v is an
\* object whose success field is the boolean false; every other v gives
\* {success: true, data: v}.
C22_ResultNormalization ==
  (call.fn = "normalize" /\ call.done) =>
    LET v == call.stepResult
        r == call.result
        failed == /\ v.t = "object"
                  /\ "success" \in DOMAIN v.f
                  /\ v.f["success"] = Bool(FALSE)
        given == /\ "error" \in DOMAIN v.f
                 /\ v.f["error"] \notin {Undef, Null, Str("")}
    IN  IF failed
        THEN /\ ~r.success
             /\ r.error = IF given THEN v.f["error"] ELSE Str("Step failed")
        ELSE /\ r.success
             /\ r.data = v

\* Normalized: an object with success false and an empty error text, which
\* got the default message.
C22_FailureWithDefaultMessage ==
  /\ call.fn = "normalize"
  /\ call.done
  /\ HasField(call.stepResult, "success")
  /\ call.stepResult.f["success"] = Bool(FALSE)
  /\ HasField(call.stepResult, "error")
  /\ call.stepResult.f["error"] = Str("")
  /\ call.result = Failure(Str("Step failed"))

-----------------------------------------------------------------------------
(* Template references {{@nodeId:rest}}: resolution into a configuration
   string (processTemplates) and into a value (replaceTemplateVariable).
   nodeId and rest are sequences of characters. *)

RECURSIVE Join(_)
\* The string a sequence of characters spells.
Join(chars) == IF chars = <<>> THEN "" ELSE Head(chars) \o Join(Tail(chars))

\* The text of a reference as it stands in a template.
MatchText(nodeId, rest) == "{{@" \o Join(nodeId) \o ":" \o Join(rest) \o "}}"

\* rest.indexOf("."), counting from 0; -1 when rest has no ".".
indexOf(rest) ==
  IF \E i \in 1..Len(rest) : rest[i] = "."
  THEN (CHOOSE i \in 1..Len(rest) :
          /\ rest[i] = "."
          /\ \A j \in 1..(i - 1) : rest[j] # ".") - 1
  ELSE -1

\* A field path that keeps the part before the first ".".
fieldPathWhole(rest) == rest

\* rest.substring(dotIndex + 1)
fieldPath(rest) == SubSeq(rest, indexOf(rest) + 2, Len(rest))

RECURSIVE split(_)
\* fieldPath.split("."): the field names, "" where nothing stands between
\* two dots or after the last one.
split(chars) ==
  IF chars = <<>> THEN <<"">>
  ELSE IF Head(chars) = "." THEN <<"">> \o split(Tail(chars))
  ELSE LET r == split(Tail(chars))
       IN  <<Head(chars) \o Head(r)>> \o Tail(r)

\* outputs[sanitizedNodeId]: an entry the run stored, or a member that the
\* object literal inherits (a value that is truthy and has no data), or
\* nothing.
OutputAt(outs, key) ==
  IF key \in DOMAIN outs THEN [found |-> TRUE, data |-> outs[key].data]
  ELSE IF Join(key) \in InheritedKeys THEN [found |-> TRUE, data |-> Undef]
  ELSE [found |-> FALSE, data |-> Undef]

\* current[field]
Get(current, field) ==
  IF field \in DOMAIN current.f THEN current.f[field]
  ELSE IF field \in InheritedKeys THEN Fn
  ELSE Undef

\* for (const field of fields): the value the loop stops at, and whether it
\* stopped before the last field.
RECURSIVE Navigate(_, _)
Navigate(current, fields) ==
  IF fields = <<>> THEN [current |-> current, broke |-> FALSE]
  ELSE IF Truthy(current) /\ current.t = "object"
       THEN Navigate(Get(current, Head(fields)), Tail(fields))
       ELSE [current |-> current, broke |-> TRUE]

\* The order in which the fields of the objects of the model were set.
FieldOrder == <<"a", "b">>

\* String(v) of a value that is no object.
String(v) ==
  CASE v.t = "string" -> v.v
    [] v.t = "number" -> ToString(v.v)
    [] v.t = "boolean" -> IF v.v THEN "true" ELSE "false"
    [] v.t = "null" -> "null"
    [] v.t = "undefined" -> "undefined"
    [] OTHER -> "function () { [native code] }"

RECURSIVE JSONstringify(_)
RECURSIVE JSONmembers(_, _, _)
\* JSON.stringify(v) of a value that is not undefined.
JSONstringify(v) ==
  CASE v.t = "string" -> "\"" \o v.v \o "\""
    [] v.t = "object" -> "{" \o JSONmembers(v, 1, "") \o "}"
    [] OTHER -> String(v)

\* The members from the i-th field of FieldOrder on; fields that hold
\* undefined or a function are left out.
JSONmembers(v, i, sep) ==
  IF i > Len(FieldOrder) THEN ""
  ELSE LET k == FieldOrder[i]
       IN  IF k \in DOMAIN v.f /\ v.f[k].t \notin {"undefined", "function"}
           THEN sep \o "\"" \o k \o "\":" \o JSONstringify(v.f[k])
                \o JSONmembers(v, i + 1, ",")
           ELSE JSONmembers(v, i + 1, sep)

\* The end of the string-mode callback: null and undefined give "", an
\* object its JSON text, anything else String(v).
TextOf(v) ==
  IF v.t \in {"null", "undefined"} THEN ""
  ELSE IF v.t = "object" THEN JSONstringify(v)
  ELSE String(v)

\* The replace callback of processTemplates for one reference.
resolveString(nodeId, rest, outs) ==
  LET output == OutputAt(outs, sanitize(nodeId))
  IN  IF ~output.found THEN MatchText(nodeId, rest)
      ELSE IF indexOf(rest) = -1 THEN TextOf(output.data)
      ELSE IF output.data.t \in {"null", "undefined"} THEN ""
      ELSE LET w == Navigate(output.data, split(fieldPath(rest)))
           IN  IF w.broke THEN "" ELSE TextOf(w.current)

\* The value of a reference whose node has an output, as
\* replaceTemplateVariable computes it: value is undefined when the loop
\* breaks, and is then set to current unless current is undefined.
resolveValue(rest, data) ==
  IF indexOf(rest) = -1 THEN data
  ELSE IF data.t \in {"null", "undefined"} THEN Undef
  ELSE LET w == Navigate(data, split(fieldPath(rest)))
           value == Undef
       IN  IF value = Undef /\ w.current # Undef THEN w.current ELSE value

\* One name for every variable.
VarNameShared(counter) == "__v0"

\* `__v${varCounter.value}`
VarName(counter) == "__v" \o ToString(counter)

\* replaceTemplateVariable: the text that replaces the reference, and the
\* evaluation context and the counter as the call leaves them.
replaceTemplateVariable(nodeId, rest, outs, evalContext, varCounter) ==
  LET output == OutputAt(outs, sanitize(nodeId))
  IN  IF ~output.found
      THEN [text |-> MatchText(nodeId, rest), resolved |-> FALSE,
            evalContext |-> evalContext, varCounter |-> varCounter]
      ELSE [text |-> VarName(varCounter), resolved |-> TRUE,
            evalContext |-> Put(evalContext, VarName(varCounter),
                                resolveValue(rest, output.data)),
            varCounter |-> varCounter + 1]

\* A node id that names a member every object inherits.
Constructor == <<"c", "o", "n", "s", "t", "r", "u", "c", "t", "o", "r">>

\* The data of the recorded output.
Datas ==
  {Undef, Null, Num(5), Num(0), Str("s"), Str(""), Bool(FALSE),
   Obj(Fields({})),
   Obj(Fields({<<"a", Num(5)>>})),
   Obj(Fields({<<"a", Str("")>>})),
   Obj(Fields({<<"a", Null>>})),
   Obj(Fields({<<"a", Obj(Fields({}))>>})),
   Obj(Fields({<<"a", Obj(Fields({<<"b", Str("s")>>}))>>})),
   Obj(Fields({<<"a", Obj(Fields({<<"b", Num(0)>>}))>>})),
   Obj(Fields({<<"a", Num(5)>>, <<"b", Str("s")>>}))}

\* The part of a reference after the ":".
Rests ==
  {<<"L">>, <<"L", ".", "a">>, <<"L", ".", "a", ".", "b">>,
   <<"L", ".", "b">>, <<"L", ".", "a", ".">>,
   <<"L", ".", "a", ".", "b", ".", "a">>}

\* The node ids a reference names; the outputs hold an entry of node N1
\* (under the key n_1) or none.
RefIds == {N1, N2, N, Ghost, Constructor}

ResolveInit ==
  /\ NoRun
  /\ \E id \in RefIds, rest \in Rests, d \in Datas, recorded \in BOOLEAN :
       call = [fn |-> "resolve", nodeId |-> id, rest |-> rest,
               outputs |-> IF recorded THEN StoreOutput(EmptyMap, N1, d)
                           ELSE EmptyMap,
               string |-> NoResult, value |-> NoResult]

\* processTemplates on a configuration value that is the reference.
ResolveString ==
  /\ call.fn = "resolve"
  /\ call.string = NoResult
  /\ call' = [call EXCEPT
       !.string =
          [text |-> resolveString(call.nodeId, call.rest, call.outputs)]]
  /\ UNCHANGED rvars

\* replaceTemplateVariable on the reference, with an empty evaluation
\* context and the counter at 0.
ResolveValue ==
  /\ call.fn = "resolve"
  /\ call.value = NoResult
  /\ call' = [call EXCEPT
       !.value = replaceTemplateVariable(call.nodeId, call.rest,
                                         call.outputs, EmptyMap, 0)]
  /\ UNCHANGED rvars

ResolveNext == ResolveString \/ ResolveValue

ResolveSpec == ResolveInit /\ [][ResolveNext]_vars

\* The recorded output a resolved reference reads.
RecordedData == call.outputs[sanitize(call.nodeId)].data

\* The reference names a node whose output the run recorded.
Recorded == call.fn = "resolve" /\ sanitize(call.nodeId) \in DOMAIN call.outputs

\* Both resolutions of the reference were made.
ResolvedBoth ==
  call.fn = "resolve" /\ call.string # NoResult /\ call.value # NoResult

\* The field names of the references of Rests that have a field path.
Segments ==
  [r \in Rests |->
     CASE r = <<"L", ".", "a">> -> <<"a">>
       [] r = <<"L", ".", "b">> -> <<"b">>
       [] r = <<"L", ".", "a", ".", "b">> -> <<"a", "b">>
       [] r = <<"L", ".", "a", ".">> -> <<"a", "">>
       [] r = <<"L", ".", "a", ".", "b", ".", "a">> -> <<"a", "b", "a">>
       [] OTHER -> <<>>]

RECURSIVE StopsEarly(_, _)
\* Following the fields from v, a value that is no object is reached while
\* fields are left.
StopsEarly(v, fields) ==
  /\ fields # <<>>
  /\ \/ v.t # "object"
     \/ StopsEarly(IF Head(fields) \in DOMAIN v.f THEN v.f[Head(fields)]
                   ELSE Undef, Tail(fields))

(* C23 *)

\* C23: in value mode, a reference whose field path reaches a value that is
\* no object (undefined included) before its last segment resolves to
\* undefined, and string mode gives the empty string for the same reference.
C23_ValuePathUndefined ==
  (/\ Recorded
   /\ ResolvedBoth
   /\ Segments[call.rest] # <<>>
   /\ StopsEarly(RecordedData, Segments[call.rest])) =>
     /\ call.value.evalContext[call.value.text] = Undef
     /\ call.string.text = ""

(* C24 *)

RECURSIVE Present(_, _)
\* Every field of the path is a field of the object reached so far.
Present(v, fields) ==
  \/ fields = <<>>
  \/ /\ v.t = "object"
     /\ Head(fields) \in DOMAIN v.f
     /\ Present(v.f[Head(fields)], Tail(fields))

RECURSIVE Leaf(_, _)
\* The value at the end of a path that is present.
Leaf(v, fields) ==
  IF fields = <<>> THEN v ELSE Leaf(v.f[Head(fields)], Tail(fields))

\* C24: for a recorded output, a reference without "." resolves to the
\* node's whole data, and a reference whose field path is present in the
\* data resolves to the leaf: in string mode to its textual form, in value
\* mode to the value itself.
C24_RoundTrip ==
  Recorded =>
    LET path == Segments[call.rest]
        leaf == Leaf(RecordedData, path)
        holds == Present(RecordedData, path)
    IN  /\ (call.string # NoResult /\ holds) =>
             call.string.text = TextOf(leaf)
        /\ (call.value # NoResult /\ holds) =>
             /\ call.value.text = "__v0"
             /\ call.value.evalContext["__v0"] = leaf

\* Resolved both ways: the reference {{@n-1:L.a.b}} over the data
\* {a: {b: 0}}, giving the text "0" and the number 0.
C24_NestedLeafResolved ==
  /\ Recorded
  /\ ResolvedBoth
  /\ call.rest = <<"L", ".", "a", ".", "b">>
  /\ RecordedData = Obj(Fields({<<"a", Obj(Fields({<<"b", Num(0)>>}))>>}))
  /\ call.string.text = "0"
  /\ call.value.evalContext["__v0"] = Num(0)

(* C25 *)

\* evalContext[varName]
evalContextAt(evalContext, varName) ==
  IF varName \in DOMAIN evalContext THEN evalContext[varName] ELSE Undef

\* C25: a reference to a node id without a recorded output is left as its
\* literal text by string mode and yields undefined in value mode.
C25_UnknownReferenceUnchanged ==
  (ResolvedBoth /\ ~Recorded) =>
    /\ call.string.text = MatchText(call.nodeId, call.rest)
    /\ evalContextAt(call.value.evalContext, call.value.text) = Undef

-----------------------------------------------------------------------------
(* evaluateConditionExpression, one statement at a time, followed by the
   Condition step that is given its result.  A string expression is a
   sequence of literal texts and references.  The two validators accept or
   reject a text; which texts they reject is their own grammar, so either
   verdict is possible for every text. *)

Lit(text) == [ref |-> FALSE, text |-> text]

Ref(nodeId, rest) == [ref |-> TRUE, nodeId |-> nodeId, rest |-> rest]

\* A string, as the pieces the template pattern divides it into.
Template(segs) == [t |-> "string", segs |-> segs]

La == <<"L", ".", "a">>

Lb == <<"L", ".", "b">>

\* The condition expressions: strings with zero, one and two references, to
\* the recorded node N1 and to the node Ghost that has no output; and values
\* that are no strings.
Expressions ==
  { Template(<<Ref(N1, La)>>),
    Template(<<Ref(N1, La), Lit(" === "), Ref(N1, Lb)>>),
    Template(<<Ref(N1, La), Lit(" === 5")>>),
    Template(<<Ref(Ghost, <<"L">>), Lit(" === 5")>>),
    Template(<<Ref(N1, La), Lit(" === "), Ref(Ghost, <<"L">>)>>),
    Template(<<Ref(Ghost, <<"L">>), Lit(" === "), Ref(N1, La)>>),
    Template(<<Ref(N1, <<"L">>), Lit(".a.b")>>),
    Template(<<Lit("true")>>),
    Template(<<Lit("1 === 2")>>),
    Bool(TRUE), Bool(FALSE), Undef, Num(1) }

\* The data of the second output map, which records the same node.
OtherDatas == {Null, Str("s"), Obj(Fields({<<"a", Num(5)>>, <<"b", Str("s")>>}))}

\* v[k] of a value that is neither null nor undefined.
Member(v, k) == IF v.t = "object" THEN Get(v, k) ELSE Undef

\* new Function(...varNames, `return (${text});`)(...varValues) for the
\* texts the expressions above turn into; a text that still holds a
\* reference is no expression and raises a SyntaxError.
evaluate(text, evalContext) ==
  CASE text = "__v0" -> Returns(evalContext["__v0"])
    [] text = "__v0 === __v1" ->
         Returns(Bool(evalContext["__v0"] = evalContext["__v1"]))
    [] text = "__v0 === 5" -> Returns(Bool(evalContext["__v0"] = Num(5)))
    [] text = "__v0.a.b" ->
         IF evalContext["__v0"] \in {Undef, Null}
            \/ Member(evalContext["__v0"], "a") \in {Undef, Null}
         THEN Throws(Str("TypeError"))
         ELSE Returns(Member(Member(evalContext["__v0"], "a"), "b"))
    [] text = "true" -> Returns(Bool(TRUE))
    [] text = "1 === 2" -> Returns(Bool(FALSE))
    [] OTHER -> Throws(Str("SyntaxError"))

\* withStepLogging(input, fn): the step handler returns what fn returns.
withStepLogging(input, returned_by_fn) == returned_by_fn

\* conditionStep(input): {condition: input.condition}
conditionStep(input) ==
  withStepLogging(input, Obj([condition |-> input.condition]))

\* A failure that opens the condition.
FailedEvaluationOpen == [result |-> TRUE, resolvedValues |-> EmptyMap]

\* return { result: false, resolvedValues: {} }
FailedEvaluation == [result |-> FALSE, resolvedValues |-> EmptyMap]

\* A pre-validation whose verdict is not looked at.
AfterPreIgnored(valid) == "substitute"

\* if (!preValidation.valid) return ...
AfterPre(valid) == IF valid THEN "substitute" ELSE "returned"

\* The state of one substitution: the text so far, the evaluation context,
\* the resolved values and the counter.
NoSubstitution ==
  [text |-> "", evalContext |-> EmptyMap, resolvedValues |-> EmptyMap,
   varCounter |-> 0]

\* The replace callback on one piece of the expression.
SubstituteIn(sub, seg, outs) ==
  IF ~seg.ref THEN [sub EXCEPT !.text = sub.text \o seg.text]
  ELSE LET r == replaceTemplateVariable(seg.nodeId, seg.rest, outs,
                                        sub.evalContext, sub.varCounter)
       IN  [text |-> sub.text \o r.text,
            evalContext |-> r.evalContext,
            resolvedValues |-> Put(sub.resolvedValues, seg.rest,
                                   evalContextAt(r.evalContext, r.text)),
            varCounter |-> r.varCounter]

EvalInit ==
  /\ NoRun
  /\ \E e \in Expressions, d \in Datas, d2 \in OtherDatas,
        recorded \in BOOLEAN :
       call = [fn |-> "evaluate",
               conditionExpression |-> e,
               outputs |-> IF recorded THEN StoreOutput(EmptyMap, N1, d)
                           ELSE EmptyMap,
               otherOutputs |-> IF recorded THEN StoreOutput(EmptyMap, N1, d2)
                                ELSE EmptyMap,
               phase |-> "pre", i |-> 1,
               sub |-> NoSubstitution, other |-> NoSubstitution,
               pre |-> "none", post |-> "none", threw |-> FALSE,
               trace |-> <<>>, ret |-> NoResult, step |-> NoResult,
               continues |-> FALSE]

\* A condition that is no string: a boolean is returned as it is, any other
\* value as Boolean(value).
PassThrough ==
  /\ call.fn = "evaluate"
  /\ call.phase = "pre"
  /\ call.conditionExpression.t # "string"
  /\ call' = [call EXCEPT
       !.phase = "returned",
       !.ret = [result |-> Truthy(call.conditionExpression),
                resolvedValues |-> EmptyMap]]
  /\ UNCHANGED rvars

PreValidate ==
  /\ call.fn = "evaluate"
  /\ call.phase = "pre"
  /\ call.conditionExpression.t = "string"
  /\ \E valid \in BOOLEAN :
       call' = [call EXCEPT
         !.phase = AfterPre(valid),
         !.pre = IF valid THEN "valid" ELSE "invalid",
         !.trace = Append(call.trace, "pre"),
         !.ret = IF AfterPre(valid) = "returned" THEN FailedEvaluation
                 ELSE NoResult]
  /\ UNCHANGED rvars

\* transformedExpression.replace(templatePattern, callback), one piece at a
\* time, over the outputs and over the other outputs.
Substitute ==
  /\ call.fn = "evaluate"
  /\ call.phase = "substitute"
  /\ call.i <= Len(call.conditionExpression.segs)
  /\ LET seg == call.conditionExpression.segs[call.i]
     IN  call' = [call EXCEPT
           !.i = call.i + 1,
           !.sub = SubstituteIn(call.sub, seg, call.outputs),
           !.other = SubstituteIn(call.other, seg, call.otherOutputs),
           !.trace = IF seg.ref THEN Append(call.trace, "resolve")
                     ELSE call.trace]
  /\ UNCHANGED rvars

PostValidate ==
  /\ call.fn = "evaluate"
  /\ call.phase = "substitute"
  /\ call.i > Len(call.conditionExpression.segs)
  /\ \E valid \in BOOLEAN :
       call' = [call EXCEPT
         !.phase = IF valid THEN "eval" ELSE "returned",
         !.post = IF valid THEN "valid" ELSE "invalid",
         !.trace = Append(call.trace, "post"),
         !.ret = IF valid THEN NoResult
                 ELSE [result |-> FALSE,
                       resolvedValues |-> call.sub.resolvedValues]]
  /\ UNCHANGED rvars

Evaluate ==
  /\ call.fn = "evaluate"
  /\ call.phase = "eval"
  /\ LET o == evaluate(call.sub.text, call.sub.evalContext)
     IN  call' = [call EXCEPT
           !.phase = "returned",
           !.threw = (o.k = "throw"),
           !.trace = Append(call.trace, "eval"),
           !.ret = IF o.k = "throw" THEN FailedEvaluation
                   ELSE [result |-> Truthy(o.v),
                         resolvedValues |-> call.sub.resolvedValues]]
  /\ UNCHANGED rvars

\* The Condition step function on the evaluated condition, the result
\* normalization, and the decision about the successors.
ConditionStep ==
  /\ call.fn = "evaluate"
  /\ call.phase = "returned"
  /\ LET result ==
           Normalize(conditionStep([condition |-> Bool(call.ret.result)]))
     IN  call' = [call EXCEPT
           !.phase = "stepped",
           !.step = result,
           !.continues = ContinuesAfter(Action(C, "Condition"), result)]
  /\ UNCHANGED rvars

EvalNext ==
  \/ PassThrough
  \/ PreValidate
  \/ Substitute
  \/ PostValidate
  \/ Evaluate
  \/ ConditionStep

EvalSpec == EvalInit /\ [][EvalNext]_vars

\* The evaluation was left on one of its failure paths.
FailurePath ==
  /\ call.fn = "evaluate"
  /\ \/ call.pre = "invalid"
     \/ call.post = "invalid"
     \/ call.threw

(* C26 *)

\* C26: a string expression that is rejected by either validation, or whose
\* evaluation raises, makes evaluateConditionExpression return result false;
\* the Condition step then returns condition false, its result is a success,
\* and the successors are not visited.
C26_FailClosed ==
  FailurePath =>
    /\ call.phase \in {"returned", "stepped"}
    /\ call.ret.result = FALSE
    /\ call.phase = "stepped" =>
         /\ call.step.success
         /\ call.step.data = Obj([condition |-> Bool(FALSE)])
         /\ ~call.continues

\* The evaluation of "__v0.a.b" raised, and the Condition step was made with
\* condition false.
C26_RaisedAndClosed ==
  /\ call.fn = "evaluate"
  /\ call.threw
  /\ call.sub.text = "__v0.a.b"
  /\ call.phase = "stepped"
  /\ call.step.success
  /\ ~call.continues

(* C27 *)

\* C27: on every failure path of the evaluation the value returned is
\* exactly {result: false, resolvedValues: {}}.
C27_FailureReturnsEmptyMap ==
  FailurePath => call.ret = [result |-> FALSE, resolvedValues |-> EmptyMap]

(* C28 *)

\* The places of an event in the trace of the evaluation.
At(ev) == {k \in DOMAIN call.trace : call.trace[k] = ev}

\* C28: the raw expression is pre-validated before any reference is
\* resolved, and the transformed text is validated after the last
\* resolution and before the evaluation; after a pre-validation reject
\* nothing is resolved or evaluated, and after a post-validation reject
\* nothing is evaluated.
C28_ValidationOrder ==
  call.fn = "evaluate" =>
    /\ \A k \in At("resolve") : \E j \in At("pre") : j < k
    /\ \A k \in At("post") :
         /\ \E j \in At("pre") : j < k
         /\ \A j \in At("resolve") : j < k
    /\ \A k \in At("eval") : \E j \in At("post") : j < k
    /\ call.sub # NoSubstitution => call.pre = "valid"
    /\ call.pre = "invalid" =>
         /\ call.trace = <<"pre">>
         /\ call.sub = NoSubstitution
    /\ At("eval") # {} => call.post = "valid"
    /\ call.post = "invalid" => At("eval") = {}

\* Returned after a post-validation reject that followed two resolutions.
C28_RejectedAfterSubstitution ==
  /\ call.fn = "evaluate"
  /\ call.post = "invalid"
  /\ call.phase = "returned"
  /\ call.trace = <<"pre", "resolve", "resolve", "post">>
  /\ call.sub.varCounter = 2

(* C29 *)

\* The references among the first k pieces that name a recorded node.
ResolvedAmong(segs, k, keys) ==
  {j \in 1..k : segs[j].ref /\ sanitize(segs[j].nodeId) \in keys}

RECURSIVE TextUpTo(_, _, _)
\* The text the first k pieces turn into when the nodes of keys are
\* recorded: a literal stays, a reference to a recorded node becomes __v
\* followed by the number of such references before it, any other
\* reference stays.
TextUpTo(segs, k, keys) ==
  IF k = 0 THEN ""
  ELSE TextUpTo(segs, k - 1, keys) \o
       (IF ~segs[k].ref THEN segs[k].text
        ELSE IF sanitize(segs[k].nodeId) \in keys
             THEN "__v" \o ToString(Cardinality(ResolvedAmong(segs, k - 1, keys)))
             ELSE MatchText(segs[k].nodeId, segs[k].rest))

\* C29: over two output maps that record the same node ids with different
\* data, the transformed text is the same: it is made of the literal pieces
\* and, for the resolved references, of the names __v0, __v1, ... in the
\* order of occurrence; the values are bound to exactly those names in the
\* evaluation context.
C29_DataNotInText ==
  (call.fn = "evaluate" /\ call.conditionExpression.t = "string") =>
    LET segs == call.conditionExpression.segs
        keys == DOMAIN call.outputs
        n == Cardinality(ResolvedAmong(segs, call.i - 1, keys))
        names == {"__v" \o ToString(k) : k \in 0..(n - 1)}
    IN  /\ DOMAIN call.outputs = DOMAIN call.otherOutputs
        /\ call.sub.text = TextUpTo(segs, call.i - 1, keys)
        /\ call.other.text = call.sub.text
        /\ DOMAIN call.sub.evalContext = names
        /\ DOMAIN call.other.evalContext = names
        /\ Cardinality(names) = n

\* Two references substituted over output maps with different data: the
\* same text, different bindings.
C29_SameTextOtherBindings ==
  /\ call.fn = "evaluate"
  /\ call.phase = "eval"
  /\ call.sub.text = "__v0 === __v1"
  /\ call.other.text = "__v0 === __v1"
  /\ call.sub.evalContext["__v0"] = Num(5)
  /\ call.sub.evalContext["__v1"] = Str("s")
  /\ call.other.evalContext["__v0"] = Undef

-----------------------------------------------------------------------------
(* The function of the trigger step: the data of a trigger node, made from
   its configuration and the live trigger input. *)

\* { ...base, ...over } of two maps.
Merge(base, over) ==
  [k \in DOMAIN base \cup DOMAIN over |->
     IF k \in DOMAIN over THEN over[k] ELSE base[k]]

\* The own properties a spread takes from a value.
Spread(v) == IF v.t = "object" THEN v.f ELSE EmptyMap

\* What the mock request texts of the model say.
MockPayloads ==
  {Obj(Fields({<<"a", Str("mock")>>, <<"b", Str("mock")>>})),
   Obj(Fields({<<"b", Str("mock")>>})),
   Obj(Fields({})),
   Num(5)}

\* config.webhookMockRequest: undefined, or a text.
MockRequests ==
  {Undef, Str(""), Str("{not json")} \cup
  {Str(JSONstringify(v)) : v \in MockPayloads}

\* JSON.parse(text): the value whose JSON text it is, or a SyntaxError.
JSONparse(text) ==
  IF \E v \in MockPayloads : JSONstringify(v) = text
  THEN Returns(CHOOSE v \in MockPayloads : JSONstringify(v) = text)
  ELSE Throws(Str("SyntaxError"))

\* The live trigger input: none (the handler's default {}), null, empty, or
\* with fields.
TriggerInputs ==
  {Obj(Fields({})), Null,
   Obj(Fields({<<"a", Str("live")>>})),
   Obj(Fields({<<"a", Str("live")>>, <<"c", Str("live")>>}))}

TriggerTypes == {Undef, Str("Webhook"), Str("Manual")}

\* Date.now()
Clock == {1, 2}

\* !triggerInput || Object.keys(triggerInput).length === 0
IsEmptyInput(triggerInput) == ~Truthy(triggerInput) \/ triggerInput.f = EmptyMap

\* The callback of step.run(`trigger-${nodeId}`, ...).
triggerStep(triggerType, webhookMockRequest, triggerInput, now) ==
  LET triggerData ==
        Fields({<<"triggered", Bool(TRUE)>>, <<"timestamp", Num(now)>>})
      data ==
        IF /\ triggerType = Str("Webhook")
           /\ Truthy(webhookMockRequest)
           /\ IsEmptyInput(triggerInput)
        THEN LET mockData == JSONparse(webhookMockRequest.v)
             IN  IF mockData.k = "throw" THEN triggerData
                 ELSE Merge(triggerData, Spread(mockData.v))
        ELSE IF ~IsEmptyInput(triggerInput)
             THEN Merge(triggerData, triggerInput.f)
             ELSE triggerData
  IN  Success(Obj(data))

TriggerInit ==
  /\ NoRun
  /\ \E ty \in TriggerTypes, m \in MockRequests, in \in TriggerInputs,
        now \in Clock :
       call = [fn |-> "trigger", triggerType |-> ty,
               webhookMockRequest |-> m, triggerInput |-> in, now |-> now,
               result |-> NoResult]

TriggerStep ==
  /\ call.fn = "trigger"
  /\ call.result = NoResult
  /\ call' = [call EXCEPT
       !.result = triggerStep(call.triggerType, call.webhookMockRequest,
                              call.triggerInput, call.now)]
  /\ UNCHANGED rvars

TriggerNext == TriggerStep

TriggerSpec == TriggerInit /\ [][TriggerNext]_vars

(* C30 *)

\* The trigger is a Webhook trigger whose mock request is the text of an
\* object.
MockConfigured ==
  /\ call.fn = "trigger"
  /\ call.triggerType = Str("Webhook")
  /\ call.webhookMockRequest \in
       {Str(JSONstringify(v)) : v \in {p \in MockPayloads : p.t = "object"}}

\* The object the configured mock request is the text of.
MockPayload ==
  CHOOSE v \in MockPayloads : Str(JSONstringify(v)) = call.webhookMockRequest

\* C30: the data of the trigger step of a trigger with a mock payload is the
\* mock payload with the live input merged over it: every key of the live
\* input has the live value, and every key of the mock payload alone has the
\* mock value; with an empty live input that is the mock payload.
C30_LiveMergedOverMock ==
  (MockConfigured /\ call.result # NoResult) =>
    LET data == call.result.data.f
        live == IF IsEmptyInput(call.triggerInput) THEN EmptyMap
                ELSE call.triggerInput.f
    IN  /\ \A k \in DOMAIN live : k \in DOMAIN data /\ data[k] = live[k]
        /\ \A k \in DOMAIN MockPayload.f \ DOMAIN live :
             k \in DOMAIN data /\ data[k] = MockPayload.f[k]

-----------------------------------------------------------------------------
(* executeWorkflowBackground: the dispatcher that sends a run to the durable
   substrate, followed by the handler's run of the event when the substrate
   has accepted it.  A send resolves, and the event is then delivered to the
   handler, or it rejects with a thrown value, and no event exists. *)

\* An Error with a message.
Error(message) == [t |-> "error", message |-> message]

\* What inngest.send may reject with: Errors, and a value that is no Error.
Thrown == {Error("boom"), Error(""), Str("boom")}

\* new Date()
Now == [t |-> "date", v |-> "now"]

\* An error record that leaves the execution running.
ErrorRecordRunning(error) ==
  [status |-> "running", error |-> Undef, completedAt |-> Undef]

\* .set({status: "error", error: error instanceof Error ? error.message
\*        : "Unknown error", completedAt: new Date()})
ErrorRecord(error) ==
  [status |-> "error",
   error |-> IF error.t = "error" THEN Str(error.message)
             ELSE Str("Unknown error"),
   completedAt |-> Now]

DispatchInit ==
  /\ NoRun
  /\ \E ns \in NodeLists : \E es \in EdgeLists(ns) :
       call = [fn |-> "dispatch", executionId |-> "e1",
               nodes |-> ns, edges |-> es,
               phase |-> "send", thrown |-> NoResult, writes |-> <<>>]

\* await inngest.send(...) rejects: the catch block updates the execution
\* record.
SendFails ==
  /\ call.fn = "dispatch"
  /\ call.phase = "send"
  /\ \E error \in Thrown :
       call' = [call EXCEPT
         !.phase = "failed",
         !.thrown = error,
         !.writes = Append(call.writes, ErrorRecord(error))]
  /\ UNCHANGED rvars

\* await inngest.send(...) resolves: the dispatcher returns.
SendSucceeds ==
  /\ call.fn = "dispatch"
  /\ call.phase = "send"
  /\ call' = [call EXCEPT !.phase = "sent"]
  /\ UNCHANGED rvars

\* The substrate calls the handler with the event's data.
Deliver ==
  /\ call.fn = "dispatch"
  /\ call.phase = "sent"
  /\ pc = "none"
  /\ call' = [call EXCEPT !.phase = "delivered"]
  /\ nodes' = call.nodes
  /\ edges' = call.edges
  /\ executionId' = call.executionId
  /\ outputs' = InitOutputs(call.nodes)
  /\ pc' = "walks"
  /\ UNCHANGED <<results, visited, stack, arg, via, walk, sink, returned, log,
                 dvars>>

DispatchNext ==
  \/ SendFails
  \/ SendSucceeds
  \/ Deliver
  \/ Next

DispatchSpec == DispatchInit /\ [][DispatchNext]_vars

(* C31 *)

\* C31: after a send that failed, the execution record has been set to
\* status "error" with the message of the Error caught (or "Unknown error"
\* for a value that is no Error) and a completion time, and the handler
\* has no results, outputs, steps or status report for the execution; after
\* a send that succeeded the dispatcher has written nothing to the record.
C31_DispatchFailure ==
  call.fn = "dispatch" =>
    /\ call.phase = "failed" =>
         /\ Len(call.writes) = 1
         /\ call.writes[1].status = "error"
         /\ call.thrown.t = "error" =>
              call.writes[1].error = Str(call.thrown.message)
         /\ call.thrown.t # "error" =>
              call.writes[1].error = Str("Unknown error")
         /\ call.writes[1].completedAt # Undef
         /\ results = EmptyMap /\ outputs = EmptyMap
         /\ log = <<>> /\ sink = <<>> /\ pc = "none"
    /\ call.phase \in {"send", "sent", "delivered"} => call.writes = <<>>

\* The send was rejected with an Error and the record says so.
C31_RecordSetToError ==
  /\ call.fn = "dispatch"
  /\ call.phase = "failed"
  /\ call.thrown = Error("boom")
  /\ call.writes = <<[status |-> "error", error |-> Str("boom"),
                      completedAt |-> Now]>>

-----------------------------------------------------------------------------
(* Two runs of the handler at once.  Everything a run keeps is declared
   inside the handler, so each invocation has its own copy; the variables
   hold the state of the run that is executing and the other run's state is
   parked while it waits for a step.  The status sink is outside the
   handler and takes the reports of both runs. *)

\* The state of the invocation that is executing.
Invocation ==
  [nodes |-> nodes, edges |-> edges, executionId |-> executionId,
   outputs |-> outputs, results |-> results, visited |-> visited,
   stack |-> stack, pc |-> pc, arg |-> arg, via |-> via, walk |-> walk,
   returned |-> returned, log |-> log]

\* An invocation that has not begun, for one graph.
NewInvocation(g, id) ==
  [nodes |-> g.nodes, edges |-> g.edges, executionId |-> id,
   outputs |-> InitOutputs(g.nodes), results |-> EmptyMap, visited |-> {},
   stack |-> <<>>, pc |-> "walks", arg |-> NoNode, via |-> NoNode,
   walk |-> 0, returned |-> [done |-> FALSE, success |-> FALSE],
   log |-> <<>>]

\* One outputs object for every invocation.
OutputsShared(r) == outputs

\* const outputs: NodeOutputs = {} inside the handler: the outputs of the
\* invocation r.
OutputsOf(r) == r.outputs

\* The invocation r goes on executing.
Resume(r) ==
  /\ nodes' = r.nodes
  /\ edges' = r.edges
  /\ executionId' = r.executionId
  /\ outputs' = OutputsOf(r)
  /\ results' = r.results
  /\ visited' = r.visited
  /\ stack' = r.stack
  /\ pc' = r.pc
  /\ arg' = r.arg
  /\ via' = r.via
  /\ walk' = r.walk
  /\ returned' = r.returned
  /\ log' = r.log

ConcurrentInit ==
  /\ \E g1 \in DurableGraphs, g2 \in DurableGraphs :
       /\ nodes = g1.nodes
       /\ edges = g1.edges
       /\ outputs = InitOutputs(g1.nodes)
       /\ call = [fn |-> "runs", active |-> 1,
                  parked |-> NewInvocation(g2, "e2")]
  /\ executionId = "e1"
  /\ results = EmptyMap
  /\ visited = {}
  /\ stack = <<>>
  /\ pc = "walks"
  /\ arg = NoNode
  /\ via = NoNode
  /\ walk = 0
  /\ sink = <<>>
  /\ returned = [done |-> FALSE, success |-> FALSE]
  /\ log = <<>>
  /\ memo = EmptyMap
  /\ ran = <<>>
  /\ first = NoDelivery
  /\ delivery = 1

\* The executing invocation waits for a step, has not begun or has returned:
\* the other invocation goes on.
Switch ==
  /\ call.fn = "runs"
  /\ \/ pc \in {"await", "done"}
     \/ pc = "walks" /\ walk = 0
  /\ call' = [call EXCEPT !.active = 3 - call.active, !.parked = Invocation]
  /\ Resume(call.parked)
  /\ UNCHANGED <<sink, dvars>>

ConcurrentNext == Switch \/ Next

ConcurrentSpec == ConcurrentInit /\ [][ConcurrentNext]_vars

(* C32 *)

\* The greatest element of a non-empty set of numbers.
Greatest(S) == CHOOSE i \in S : \A j \in S : j <= i

\* The results a history leaves: for every node it wrote a result for, the
\* one written last.
ResultsLeftBy(lg) ==
  LET W == {i \in DOMAIN lg : lg[i].ev \in ResultWriteEvents}
  IN  [n \in {lg[i].node : i \in W} |->
         lg[Greatest({i \in W : lg[i].node = n})].result]

\* The outputs a history leaves: for every key it wrote, the entry written
\* last.
OutputsLeftBy(lg) ==
  LET W == {i \in DOMAIN lg : lg[i].ev \in OutputWriteEvents}
  IN  [k \in {sanitize(lg[i].node) : i \in W} |->
         LET j == Greatest({i \in W : sanitize(lg[i].node) = k})
         IN  [label |-> lg[j].node,
              data |-> IF lg[j].ev = "disabled" THEN Null
                       ELSE lg[j].result.data]]

\* The visited set a history leaves in its current walk.
VisitedLeftBy(lg, w) ==
  {lg[i].node : i \in {i \in DOMAIN lg : /\ lg[i].walk = w
                                         /\ lg[i].ev \in Arrivals \ {"again"}}}

\* The state of the invocation r is what its own history of arrivals and
\* step outcomes leaves, and its history is one of its own graph; its
\* status report is its own.
OwnStateOnly(r) ==
  /\ r.results = ResultsLeftBy(r.log)
  /\ r.outputs = OutputsLeftBy(r.log)
  /\ r.visited = VisitedLeftBy(r.log, r.walk)
  /\ \A i \in DOMAIN r.log :
       r.log[i].node \in {r.nodes[k].id : k \in DOMAIN r.nodes}
                         \cup {r.edges[k].target : k \in DOMAIN r.edges}
  /\ LET reports == {i \in DOMAIN sink : sink[i].executionId = r.executionId}
     IN  IF r.returned.done
         THEN /\ Cardinality(reports) = 1
              /\ r.returned.success = \A n \in DOMAIN r.results :
                                         r.results[n].success
              /\ \A i \in reports :
                   sink[i].status = IF r.returned.success THEN "success"
                                    ELSE "error"
         ELSE reports = {}

\* C32: with two runs interleaved at their steps, the results, outputs and
\* visited set of each run are those its own history leaves, whatever the
\* other run has done: what a run returns is what it returns alone with the
\* same step outcomes.
C32_RunIsolation ==
  call.fn = "runs" => OwnStateOnly(Invocation) /\ OwnStateOnly(call.parked)

\* Two runs of the same graph, both waiting for a step, each with results
\* of its own.
C32_BothMidRun ==
  /\ call.fn = "runs"
  /\ pc = "await"
  /\ call.parked.pc = "await"
  /\ nodes = call.parked.nodes
  /\ edges = call.parked.edges
  /\ results # EmptyMap
  /\ call.parked.results # EmptyMap
  /\ results # call.parked.results
  /\ outputs # call.parked.outputs

-----------------------------------------------------------------------------
(* C33 *)

\* C33: a reference {{@X:...}} to a node X of the run reads, when the key of
\* X has an output, the output that X wrote: no two nodes write the same
\* key.
C33_ReferenceTargetsOwnNode ==
  \A X \in Ids(nodes) :
    sanitize(X) \in DOMAIN outputs =>
      /\ OutputAt(outputs, sanitize(X)).data = outputs[sanitize(X)].data
      /\ outputs[sanitize(X)].label = X

-----------------------------------------------------------------------------
(* C34 *)

C34_MissingLeavesNothing ==
  /\ \A i \in Events({"missing"}) :
       LET n == log[i].node
           w == log[i].walk
       IN  /\ ~HasNode(n)
           /\ n \notin DOMAIN results
           /\ ~HasOutputOf(n)
           /\ EventsIn(w, n, {"start"}) = {}
           /\ ArrivalsVia(w, n) = <<>>
           /\ w \in CompleteWalks =>
                ArrivalsVia(w, log[i].via) = TargetsFrom(edges, log[i].via)
  /\ pc = "done" =>
       returned.success = \A n \in DOMAIN results : results[n].success

C34_MissingVisit ==
  (log' # log /\ Last(log').ev = "missing") =>
    /\ results' = results
    /\ outputs' = outputs
    /\ stack' = stack
    /\ pc' \in {"loop", "walks"}

\* C34: the visit of an edge target that is no node of the list returns at
\* once: the id gets no result and no output, no step is started for it,
\* nothing is visited through it, the run's success does not count it, and
\* all the targets of the source node are visited.
C34_DanglingEdge == []C34_MissingLeavesNothing /\ [][C34_MissingVisit]_vars

\* A finished, successful run in which a target was missing and a later
\* target of the same source ran.
C34_SiblingRanAfterMissing ==
  /\ pc = "done"
  /\ returned.success
  /\ \E i \in Events({"missing"}) : \E k \in Events({"ok"}) :
       /\ i < k
       /\ log[k].via = log[i].via
       /\ log[k].walk = log[i].walk

-----------------------------------------------------------------------------
(* The two endpoints that start a run: runWorkflow (POST .../execute) and
   webhookPostEndpoint (POST .../webhook), one statement at a time up to the
   call of the dispatcher.  The session, the rows of the database, the
   verdict of the integration validation and the request are inputs; any
   awaited call may throw, which the endpoint's catch block answers. *)

Users == {"u1", "u2"}

\* No session, no workflow row, no API key row.
None == [none |-> TRUE]

\* A node of a stored workflow, as far as the endpoints read it.
StoredNode(type, triggerType) == [type |-> type, triggerType |-> triggerType]

\* The node lists of the stored workflow: one trigger, none, and two.
StoredNodeLists ==
  { <<StoredNode("trigger", "Webhook"), StoredNode("action", "")>>,
    <<StoredNode("trigger", "Manual"), StoredNode("action", "")>>,
    <<StoredNode("action", "")>>,
    <<StoredNode("action", ""), StoredNode("trigger", "Manual"),
      StoredNode("trigger", "Webhook")>>,
    <<StoredNode("trigger", "Webhook"), StoredNode("trigger", "Manual")>> }

\* The Authorization header as its pieces: none, empty, and keys with and
\* without the prefixes.
AuthHeaders ==
  {None} \cup
  { [text |-> h] : h \in
      { <<>>,
        <<"wfb_", "k1">>, <<"Bearer ", "wfb_", "k1">>,
        <<"Bearer ", "k1">>, <<"k1">>,
        <<"bearer ", "wfb_", "k1">>,
        <<"Bearer ", "Bearer ", "wfb_", "k1">>,
        <<"Bearer ", "wfb_", "k2">> } }

\* text.startsWith(prefix), for a prefix that is a piece
startsWith(text, prefix) == text # <<>> /\ Head(text) = prefix

\* createHash("sha256").update(key).digest("hex")
keyHash(key) == "sha256(" \o Join(key) \o ")"

\* The rows of apiKeys, in the order findFirst reads them.
ApiKeyTables ==
  { <<>>,
    <<[id |-> 1, keyHash |-> keyHash(<<"wfb_", "k1">>), userId |-> "u1"]>>,
    <<[id |-> 1, keyHash |-> keyHash(<<"wfb_", "k1">>), userId |-> "u2"]>>,
    <<[id |-> 1, keyHash |-> keyHash(<<"wfb_", "k2">>), userId |-> "u2"],
      [id |-> 2, keyHash |-> keyHash(<<"wfb_", "k1">>), userId |-> "u1"]>> }

\* db.query.apiKeys.findFirst({where: eq(apiKeys.keyHash, hash)})
findFirstApiKey(rows, hash) ==
  IF \E i \in DOMAIN rows : rows[i].keyHash = hash
  THEN rows[CHOOSE i \in DOMAIN rows :
              /\ rows[i].keyHash = hash
              /\ \A j \in 1..(i - 1) : rows[j].keyHash # hash]
  ELSE None

\* An API key check that takes the key of any user.
KeyOfOwnerAny(apiKey, workflowUserId) == TRUE

\* apiKey.userId === workflowUserId
KeyOfOwner(apiKey, workflowUserId) == apiKey.userId = workflowUserId

\* validateApiKey(authHeader, workflowUserId)
validateApiKey(authHeader, workflowUserId, rows) ==
  IF authHeader = None \/ authHeader.text = <<>>
  THEN [valid |-> FALSE, statusCode |-> 401]
  ELSE LET key == IF startsWith(authHeader.text, "Bearer ")
                  THEN Tail(authHeader.text) ELSE authHeader.text
           apiKey == findFirstApiKey(rows, keyHash(key))
       IN  IF ~startsWith(key, "wfb_")
           THEN [valid |-> FALSE, statusCode |-> 401]
           ELSE IF apiKey = None THEN [valid |-> FALSE, statusCode |-> 401]
           ELSE IF ~KeyOfOwner(apiKey, workflowUserId)
                THEN [valid |-> FALSE, statusCode |-> 403]
                ELSE [valid |-> TRUE, statusCode |-> 200]

\* nodes.find((node) => node.data.type === "trigger")
findTrigger(ns) ==
  IF \E i \in DOMAIN ns : ns[i].type = "trigger"
  THEN ns[CHOOSE i \in DOMAIN ns :
            /\ ns[i].type = "trigger"
            /\ \A j \in 1..(i - 1) : ns[j].type # "trigger"]
  ELSE None

\* A session of any user passes for the owner's.
OwnsWorkflowAny(workflow, session) == TRUE

\* workflow.userId === session.user.id
OwnsWorkflow(workflow, session) == workflow.userId = session.user

\* The request body: JSON of an object with input, of an empty object, the
\* JSON null, and a text that is no JSON.
Bodies == {Obj([input |-> Str("x")]), Obj(EmptyMap), Null, Str("{not json")}

\* await request.json().catch(() => ({}))
requestJson(body) == IF body.t = "string" THEN Obj(EmptyMap) ELSE body

StartInit ==
  /\ NoRun
  /\ \E endpoint \in {"execute", "webhook"},
        session \in {None} \cup {[user |-> u] : u \in Users},
        workflow \in {None} \cup
                     [userId : Users, nodes : StoredNodeLists],
        integrationsValid \in BOOLEAN,
        body \in Bodies :
       \E authHeader \in IF endpoint = "webhook" THEN AuthHeaders ELSE {None},
          rows \in IF endpoint = "webhook" THEN ApiKeyTables ELSE {<<>>} :
         call = [fn |-> "start", endpoint |-> endpoint,
                 session |-> session, workflow |-> workflow,
                 integrationsValid |-> integrationsValid,
                 authHeader |-> authHeader, apiKeys |-> rows, body |-> body,
                 phase |-> IF endpoint = "execute" THEN "session"
                           ELSE "workflow",
                 input |-> Undef, executions |-> <<>>, dispatched |-> <<>>,
                 status |-> 0]

\* return new Response(JSON.stringify({error, status}))
Respond(status) == call' = [call EXCEPT !.phase = "responded", !.status = status]

Proceed(phase) == call' = [call EXCEPT !.phase = phase]

\* const session = await auth.api.getSession(...); if (!session) ...
GetSession ==
  /\ call.fn = "start" /\ call.phase = "session"
  /\ IF call.session = None THEN Respond(401) ELSE Proceed("workflow")
  /\ UNCHANGED rvars

\* const workflow = await db.query.workflows.findFirst(...); if (!workflow) ...
FindWorkflow ==
  /\ call.fn = "start" /\ call.phase = "workflow"
  /\ IF call.workflow = None THEN Respond(404)
     ELSE Proceed(IF call.endpoint = "execute" THEN "owner" ELSE "apiKey")
  /\ UNCHANGED rvars

\* if (workflow.userId !== session.user.id) ...
CheckOwner ==
  /\ call.fn = "start" /\ call.phase = "owner"
  /\ IF OwnsWorkflow(call.workflow, call.session) THEN Proceed("integrations")
     ELSE Respond(403)
  /\ UNCHANGED rvars

\* const apiKeyValidation = await validateApiKey(authHeader, workflow.userId)
CheckApiKey ==
  /\ call.fn = "start" /\ call.phase = "apiKey"
  /\ LET v == validateApiKey(call.authHeader, call.workflow.userId,
                             call.apiKeys)
     IN  IF v.valid THEN Proceed("trigger") ELSE Respond(v.statusCode)
  /\ UNCHANGED rvars

\* if (!triggerNode || triggerNode.data.config?.triggerType !== "Webhook") ...
CheckTrigger ==
  /\ call.fn = "start" /\ call.phase = "trigger"
  /\ LET triggerNode == findTrigger(call.workflow.nodes)
     IN  IF triggerNode = None \/ triggerNode.triggerType # "Webhook"
         THEN Respond(400) ELSE Proceed("integrations")
  /\ UNCHANGED rvars

\* const validation = await validateWorkflowIntegrations(...);
\* if (!validation.valid) ...
ValidateIntegrations ==
  /\ call.fn = "start" /\ call.phase = "integrations"
  /\ IF call.integrationsValid THEN Proceed("body") ELSE Respond(403)
  /\ UNCHANGED rvars

\* The body is parsed; runWorkflow takes body.input || {}, which throws for
\* the body null, and the webhook takes the body itself.
ParseBody ==
  /\ call.fn = "start" /\ call.phase = "body"
  /\ LET body == requestJson(call.body)
     IN  IF call.endpoint = "webhook"
         THEN call' = [call EXCEPT !.phase = "insert", !.input = body]
         ELSE IF body = Null THEN Respond(500)
         ELSE call' = [call EXCEPT
                !.phase = "insert",
                !.input = IF HasField(body, "input")
                             /\ Truthy(body.f["input"])
                          THEN body.f["input"] ELSE Obj(EmptyMap)]
  /\ UNCHANGED rvars

\* db.insert(workflowExecutions).values({..., status: "running", input})
InsertExecution ==
  /\ call.fn = "start" /\ call.phase = "insert"
  /\ call' = [call EXCEPT
       !.phase = "dispatch",
       !.executions = Append(call.executions,
          [id |-> "e1",
           userId |-> IF call.endpoint = "execute" THEN call.session.user
                      ELSE call.workflow.userId,
           status |-> "running", input |-> call.input])]
  /\ UNCHANGED rvars

\* executeWorkflowBackground(execution.id, ...) and the response
DispatchRun ==
  /\ call.fn = "start" /\ call.phase = "dispatch"
  /\ call' = [call EXCEPT
       !.phase = "responded",
       !.status = 200,
       !.dispatched = Append(call.dispatched,
          [executionId |-> call.executions[1].id, nodes |-> call.workflow.nodes,
           triggerInput |-> call.input])]
  /\ UNCHANGED rvars

\* An awaited call throws: catch (error) answers with status 500.
StartFails ==
  /\ call.fn = "start"
  /\ call.phase \in {"session", "workflow", "apiKey", "integrations", "insert"}
  /\ Respond(500)
  /\ UNCHANGED rvars

StartNext ==
  \/ GetSession
  \/ FindWorkflow
  \/ CheckOwner
  \/ CheckApiKey
  \/ CheckTrigger
  \/ ValidateIntegrations
  \/ ParseBody
  \/ InsertExecution
  \/ DispatchRun
  \/ StartFails

StartSpec == StartInit /\ [][StartNext]_vars

\* The execution records created and the runs dispatched by the request.
Started == call.executions # <<>> \/ call.dispatched # <<>>

\* At most one record, of status "running", and a dispatch only of it.
StartedOnce ==
  /\ Len(call.executions) <= 1 /\ Len(call.dispatched) <= 1
  /\ \A i \in DOMAIN call.executions : call.executions[i].status = "running"
  /\ \A i \in DOMAIN call.dispatched :
       /\ call.executions # <<>>
       /\ call.dispatched[i].executionId = call.executions[1].id

\* The request was answered with the status of a failed check.
Refused == call.phase = "responded" /\ call.status \in {400, 401, 403, 404}

\* There is a session, the workflow exists, the session's user owns it and
\* its integration references validate.
ExecuteAuthorised ==
  /\ call.session # None
  /\ call.workflow # None
  /\ call.workflow.userId = call.session.user
  /\ call.integrationsValid

\* C35: the execute endpoint creates an execution record, of status
\* "running", and dispatches the run only when there is a session, the
\* workflow exists, the session's user owns the workflow and the integration
\* references validate; a request refused by a check has created no record
\* and dispatched nothing.
C35_AuthorisedExecute ==
  (call.fn = "start" /\ call.endpoint = "execute") =>
    /\ Started => ExecuteAuthorised
    /\ StartedOnce
    /\ \A i \in DOMAIN call.executions :
         call.executions[i].userId = call.session.user
    /\ Refused => ~Started

\* The execute endpoint created a record and dispatched its run.
C35_ExecuteStarted ==
  /\ call.fn = "start" /\ call.endpoint = "execute"
  /\ call.phase = "responded" /\ call.status = 200
  /\ call.executions # <<>> /\ call.dispatched # <<>>

\* The keys a header carries: its text, and the text after "Bearer ".
CarriedKeys ==
  IF call.authHeader = None THEN {}
  ELSE {call.authHeader.text} \cup
       (IF startsWith(call.authHeader.text, "Bearer ")
        THEN {Tail(call.authHeader.text)} ELSE {})

\* The workflow exists, the request carries a key wfb_... whose hash is
\* stored for the workflow's owner, the workflow's trigger is a Webhook
\* trigger and its integration references validate.
WebhookAuthorised ==
  /\ call.workflow # None
  /\ \E key \in CarriedKeys :
       /\ key # <<>> /\ Head(key) = "wfb_"
       /\ \E i \in DOMAIN call.apiKeys :
            /\ call.apiKeys[i].keyHash = keyHash(key)
            /\ call.apiKeys[i].userId = call.workflow.userId
  /\ \E i \in DOMAIN call.workflow.nodes :
       /\ call.workflow.nodes[i].type = "trigger"
       /\ call.workflow.nodes[i].triggerType = "Webhook"
       /\ \A j \in 1..(i - 1) : call.workflow.nodes[j].type # "trigger"
  /\ call.integrationsValid

\* C36: the webhook endpoint creates an execution record and dispatches the
\* run only when the workflow exists, the request carries an API key of the
\* form wfb_... whose hash is stored and belongs to the workflow's owner, the
\* workflow's trigger is of type Webhook and the integration references
\* validate for the owner; a request refused by a check has created no record
\* and dispatched nothing.
C36_AuthorisedWebhook ==
  (call.fn = "start" /\ call.endpoint = "webhook") =>
    /\ Started => WebhookAuthorised
    /\ StartedOnce
    /\ \A i \in DOMAIN call.executions :
         call.executions[i].userId = call.workflow.userId
    /\ Refused => ~Started

\* The webhook endpoint created a record and dispatched its run for a
\* request with a Bearer key, with the key of another user stored as well.
C36_WebhookStarted ==
  /\ call.fn = "start" /\ call.endpoint = "webhook"
  /\ call.phase = "responded" /\ call.status = 200
  /\ call.executions # <<>> /\ call.dispatched # <<>>
  /\ startsWith(call.authHeader.text, "Bearer ")
  /\ Len(call.apiKeys) = 2
====
